---- MODULE Spec2Model ----
(***************************************************************************)
(* Model of the assessment engine core of the cluster-assessment-operator: *)
(* the history and delta engine (pkg/history), the profile resolver        *)
(* (pkg/profiles), the AssessmentProfile reconciler (controllers) and the  *)
(* ClusterAssessment reconciler with its schedule and its scoring.         *)
(*                                                                         *)
(* Conventions.  A Go pointer (to an int, a DeltaSummary, a snapshot)      *)
(* is a sequence of length 0 (nil) or 1 (the value pointed to).  A Go      *)
(* slice is a sequence; a nil slice and an empty slice are both << >>.     *)
(* A Go map is a function whose DOMAIN is the set of its keys.             *)
(***************************************************************************)
EXTENDS Integers, Sequences, FiniteSets, TLC

VARIABLES
    \* ---- ComputeDelta as a pure function: inputs and output
    dCurrent,       \* current []FindingSnapshot
    dScore,         \* currentScore, a pointer to int
    dPrevious,      \* previous, a pointer to AssessmentSnapshot
    dOut,           \* the returned pointer to DeltaSummary
    dDone,          \* whether ComputeDelta has been applied
    \* ---- the snapshot store and the history manager
    now,            \* the wall clock, in seconds
    snapshots,      \* the AssessmentSnapshot records of the state store
    historyLimit,   \* per assessment: spec.historyLimit, a pointer to int
    caStatus,       \* per assessment: the status of the ClusterAssessment
    pc,             \* per assessment: where its CreateSnapshot call stands
    call,           \* per assessment: the locals of its CreateSnapshot call
    ret,            \* per assessment: what its last CreateSnapshot call returned
    hist,           \* per assessment: history of its calls (for the properties)
    \* ---- mergeProfile as a pure function: input and output
    mCustom,        \* custom, a pointer to AssessmentProfile
    mOut,           \* the returned Profile (a pointer, nil before the call)
    \* ---- the AssessmentProfile records, their reconciler and the resolver
    profileStore,   \* per override name: the AssessmentProfile record (a pointer)
    resolved,       \* what Resolve returned last, since the store last changed
    reconciling,    \* the Reconcile call between its Get and its Status().Update
    \* ---- validateProfile as a pure function: input and output
    vProfile,       \* profile, a pointer to AssessmentProfile
    vOut,           \* the returned (ready, message, count), nil before the call
    \* ---- compactFindings as a pure function: input and output
    cFindings,      \* findings []Finding
    cOut,           \* the returned []FindingSnapshot (a pointer, nil before the call)
    \* ---- one ClusterAssessment request and its reconciler
    rSpec,          \* the spec of the request: schedule, suspend
    rTrigger,       \* whether the request carries a re-run annotation
    rStatus,        \* the status of the request
    rNow,           \* the wall clock of the reconciler
    rPc,            \* where the reconciliation of the request stands
    rLast,          \* what wrote the request last (for the properties)
    rCopy,          \* the request as the reconciliation in flight read it
    \* ---- PruneHistory called on its own
    pStore,         \* the AssessmentSnapshot records of the state store
    pLimit,         \* limit
    pPc,            \* where the call stands
    pLocals,        \* count, items, toDelete and i of the call
    pRet            \* what the call returned

deltaVars == <<dCurrent, dScore, dPrevious, dOut, dDone>>

historyVars == <<now, snapshots, historyLimit, caStatus, pc, call, ret, hist>>

mergeVars == <<mCustom, mOut>>

profileVars == <<profileStore, resolved, reconciling>>

validateVars == <<vProfile, vOut>>

compactVars == <<cFindings, cOut>>

reconcileVars == <<rSpec, rTrigger, rStatus, rNow, rPc, rLast, rCopy>>

pruneVars == <<pStore, pLimit, pPc, pLocals, pRet>>

vars == <<dCurrent, dScore, dPrevious, dOut, dDone,
          now, snapshots, historyLimit, caStatus, pc, call, ret, hist,
          mCustom, mOut, profileStore, resolved, reconciling, vProfile, vOut,
          cFindings, cOut,
          rSpec, rTrigger, rStatus, rNow, rPc, rLast, rCopy,
          pStore, pLimit, pPc, pLocals, pRet>>

\* What the actions of one part of the model leave alone.
outsideDelta == <<historyVars, mergeVars, profileVars, validateVars, compactVars, reconcileVars, pruneVars>>
outsideHistory == <<deltaVars, mergeVars, profileVars, validateVars, compactVars, reconcileVars, pruneVars>>
outsideMerge == <<deltaVars, historyVars, profileVars, validateVars, compactVars, reconcileVars, pruneVars>>
outsideProfile == <<deltaVars, historyVars, mergeVars, validateVars, compactVars, reconcileVars, pruneVars>>
outsideValidate == <<deltaVars, historyVars, mergeVars, profileVars, compactVars, reconcileVars, pruneVars>>
outsideCompact == <<deltaVars, historyVars, mergeVars, profileVars, validateVars, reconcileVars, pruneVars>>
outsideReconcile == <<deltaVars, historyVars, mergeVars, profileVars, validateVars, compactVars, pruneVars>>
outsidePrune == <<deltaVars, historyVars, mergeVars, profileVars, validateVars, compactVars, reconcileVars>>

(***************************************************************************)
(* Bounds of the model.                                                    *)
(***************************************************************************)
\* Largest total number of findings (current plus previous) given to ComputeDelta.
MaxFindings == 3
\* The last second of the clock.
MaxTime == 3
\* Longest enabledValidators and disabledValidators list given to validateProfile.
MaxNames == 2
\* Longest list of findings given to compactFindings.
MaxCompact == 2
\* Most snapshots of one assessment in the store given to PruneHistory,
\* and the largest limit, positive or negative.
MaxPruneSnapshots == 3
\* The last tick of the reconciler's clock.
MaxReconcileTime == 4
\* Longest list of findings a run of the orchestrator returns.
MaxRunFindings == 2

(***************************************************************************)
(* Strings.  Go compares strings byte-wise; Bytes gives the bytes of the   *)
(* finding ids the model uses.                                             *)
(***************************************************************************)
Bytes(s) ==
    CASE s = "B"  -> <<66>>
      [] s = "a"  -> <<97>>
      [] s = "ab" -> <<97, 98>>
      [] s = "b"  -> <<98>>
      [] s = "c"  -> <<99>>

\* u < v for byte sequences, as Go's string "<".
LexLess(u, v) ==
    \E k \in 1..(Len(v)) :
        /\ \A j \in 1..(k - 1) : j <= Len(u) /\ u[j] = v[j]
        /\ k - 1 <= Len(u)
        /\ (k > Len(u) \/ u[k] < v[k])

StringLess(s, t) == LexLess(Bytes(s), Bytes(t))

RECURSIVE InsertSorted(_, _)
InsertSorted(x, s) ==
    IF s = << >> THEN <<x>>
    ELSE IF StringLess(s[1], x) THEN <<s[1]>> \o InsertSorted(x, Tail(s))
    ELSE <<x>> \o s

RECURSIVE SortAscending(_)
SortAscending(s) ==
    IF s = << >> THEN << >> ELSE InsertSorted(s[1], SortAscending(Tail(s)))

Reverse(s) == [i \in 1..Len(s) |-> s[Len(s) + 1 - i]]

\* A wrong comparator: descending order.
SortStringsDescending(s) == Reverse(SortAscending(s))

\* sort.Strings: ascending byte-wise order.
SortStrings(s) == SortAscending(s)

Range(s) == {s[i] : i \in DOMAIN s}

\* The keys of a Go map appended to a slice by "for id := range m": the
\* iteration order is unspecified, so the slice is some enumeration of the keys.
RangeOver(S) ==
    CHOOSE s \in [1..Cardinality(S) -> S] : Range(s) = S

(***************************************************************************)
(* Findings and their statuses.                                            *)
(***************************************************************************)
FindingStatuses == {"INFO", "PASS", "WARN", "FAIL"}

\* A plausible slip: INFO ranked above PASS.
severityLevelInfoAbovePass(s) ==
    CASE s = "PASS" -> 0
      [] s = "INFO" -> 1
      [] s = "WARN" -> 2
      [] s = "FAIL" -> 3
      [] OTHER -> 0

severityLevel(s) ==
    CASE s = "INFO" -> 0
      [] s = "PASS" -> 1
      [] s = "WARN" -> 2
      [] s = "FAIL" -> 3
      [] OTHER -> 0

\* FindingSnapshot: the compact finding stored in a snapshot.
FindingSnapshot(id, validator, status) ==
    [id |-> id, validator |-> validator, category |-> "cat", status |-> status,
     title |-> "t", resource |-> "", namespace |-> ""]

\* The zero value of AssessmentSnapshotStatus: what a snapshot holds between
\* its creation and its status update.  The zero time is 0; real times are >= 1.
ZeroSnapshotStatus ==
    [runTime |-> 0, summary |-> [score |-> << >>], findings |-> << >>,
     delta |-> << >>, previousSnapshotName |-> << >>]

\* An AssessmentSnapshot.  name is <<assessment name, formatted time>>;
\* label is the value of the label assessment.openshift.io/name.
AssessmentSnapshot(name, label, assessmentName, profile, status) ==
    [name |-> name, label |-> label,
     spec |-> [assessmentName |-> assessmentName, profile |-> profile],
     status |-> status]

(***************************************************************************)
(* ComputeDelta.                                                           *)
(***************************************************************************)
\* "for _, f := range fs { m[f.ID] = f.Status }": a later entry of the same id
\* overwrites an earlier one.
BuildStatusMap(fs) ==
    [id \in {fs[i].id : i \in DOMAIN fs} |->
        fs[CHOOSE i \in DOMAIN fs :
              /\ fs[i].id = id
              /\ \A j \in DOMAIN fs : fs[j].id = id => j <= i].status]

\* In current but not in previous.
NewFindings(currentMap, previousMap) ==
    RangeOver({id \in DOMAIN currentMap : id \notin DOMAIN previousMap})

\* In previous but not in current.
ResolvedFindings(currentMap, previousMap) ==
    RangeOver({id \in DOMAIN previousMap : id \notin DOMAIN currentMap})

\* In both, status changed, and more severe now.
RegressionFindings(currentMap, previousMap) ==
    RangeOver({id \in DOMAIN currentMap :
        /\ id \in DOMAIN previousMap
        /\ currentMap[id] # previousMap[id]
        /\ severityLevel(currentMap[id]) > severityLevel(previousMap[id])})

\* A plausible slip: the test for an unchanged status left out.
ImprovedFindingsWithoutEqualityTest(currentMap, previousMap) ==
    RangeOver({id \in DOMAIN currentMap :
        /\ id \in DOMAIN previousMap
        /\ ~(severityLevel(currentMap[id]) > severityLevel(previousMap[id]))})

\* In both, status changed, and not more severe now.
ImprovedFindings(currentMap, previousMap) ==
    RangeOver({id \in DOMAIN currentMap :
        /\ id \in DOMAIN previousMap
        /\ currentMap[id] # previousMap[id]
        /\ ~(severityLevel(currentMap[id]) > severityLevel(previousMap[id]))})

\* A plausible slip: the operands of the subtraction exchanged.
ScoreDeltaReversed(currentScore, previousScore) ==
    IF currentScore # << >> /\ previousScore # << >>
    THEN <<previousScore[1] - currentScore[1]>>
    ELSE << >>

\* The score delta: set when both scores are present.
ScoreDelta(currentScore, previousScore) ==
    IF currentScore # << >> /\ previousScore # << >>
    THEN <<currentScore[1] - previousScore[1]>>
    ELSE << >>

ComputeDelta(current, currentScore, previous) ==
    IF previous = << >> THEN << >>
    ELSE
        LET currentMap == BuildStatusMap(current)
            previousMap == BuildStatusMap(previous[1].status.findings)
        IN <<[newFindings |-> SortStrings(NewFindings(currentMap, previousMap)),
              resolvedFindings |-> SortStrings(ResolvedFindings(currentMap, previousMap)),
              regressionFindings |-> SortStrings(RegressionFindings(currentMap, previousMap)),
              improvedFindings |-> SortStrings(ImprovedFindings(currentMap, previousMap)),
              scoreDelta |-> ScoreDelta(currentScore, previous[1].status.summary.score)]>>

(***************************************************************************)
(* ComputeDelta applied to bounded inputs.                                 *)
(***************************************************************************)
DeltaIds == {"B", "a", "ab"}
DeltaValidators == {"nodes", "security"}
DeltaScores == {<< >>, <<40>>, <<70>>}

SeqsUpTo(S, n) == UNION {[1..k -> S] : k \in 0..n}

\* Findings of one validator, any ids and statuses.
OneValidatorFindings ==
    {FindingSnapshot(id, "nodes", st) : id \in DeltaIds, st \in FindingStatuses}

\* Findings of several validators.
ManyValidatorFindings ==
    {FindingSnapshot(id, v, st) :
        id \in {"a", "ab"}, v \in DeltaValidators, st \in {"PASS", "FAIL"}}

\* The previous snapshot given to ComputeDelta: only its findings and score are read.
PreviousSnapshot(findings, score) ==
    AssessmentSnapshot(<<"ca1", 1>>, "ca1", "ca1", "production",
        [ZeroSnapshotStatus EXCEPT !.runTime = 1, !.findings = findings,
                                   !.summary = [score |-> score]])

\* The orders in which the findings of a list may be given.
Orderings(fs) ==
    {[i \in 1..Len(fs) |-> fs[f[i]]] :
        f \in {g \in [1..Len(fs) -> 1..Len(fs)] :
                  \A i, j \in 1..Len(fs) : g[i] = g[j] => i = j}}

\* The inputs: lists of up to MaxFindings findings in all (repeated ids
\* included) without scores; short lists with every combination of scores
\* and with findings of several validators; a nil previous; and a current
\* list of two findings with a previous list of the same findings in any
\* order.
DeltaInit ==
    /\ \/ \E k \in 0..MaxFindings :
            \E c \in [1..k -> OneValidatorFindings] :
              \E p \in SeqsUpTo(OneValidatorFindings, MaxFindings - k) :
                /\ dCurrent = c
                /\ dScore = << >>
                /\ dPrevious = <<PreviousSnapshot(p, << >>)>>
       \/ \E c \in SeqsUpTo(ManyValidatorFindings, 1) :
            \E p \in SeqsUpTo(ManyValidatorFindings, 1) :
              \E s \in DeltaScores, t \in DeltaScores :
                /\ dCurrent = c
                /\ dScore = s
                /\ dPrevious = <<PreviousSnapshot(p, t)>>
       \/ \E c \in SeqsUpTo(ManyValidatorFindings, 1) :
            \E s \in DeltaScores :
                /\ dCurrent = c
                /\ dScore = s
                /\ dPrevious = << >>
       \/ \E c \in [1..2 -> OneValidatorFindings] :
            \E p \in Orderings(c) :
                /\ dCurrent = c
                /\ dScore = << >>
                /\ dPrevious = <<PreviousSnapshot(p, << >>)>>
    /\ dOut = << >>
    /\ dDone = FALSE

DeltaIdle ==
    /\ dCurrent = << >>
    /\ dScore = << >>
    /\ dPrevious = << >>
    /\ dOut = << >>
    /\ dDone = FALSE

ApplyComputeDelta ==
    /\ ~dDone
    /\ dOut' = ComputeDelta(dCurrent, dScore, dPrevious)
    /\ dDone' = TRUE
    /\ UNCHANGED <<dCurrent, dScore, dPrevious>>
    /\ UNCHANGED outsideDelta

NextDelta == ApplyComputeDelta

(***************************************************************************)
(* Properties of ComputeDelta (checked under SpecDelta).                   *)
(***************************************************************************)
UniqueIds(fs) == \A i, j \in DOMAIN fs : fs[i].id = fs[j].id => i = j

IdsOf(fs) == {fs[i].id : i \in DOMAIN fs}

StatusOf(fs, id) == (CHOOSE f \in Range(fs) : f.id = id).status

\* s lists exactly the members of S, each once.
ListsExactly(s, S) == Range(s) = S /\ Len(s) = Cardinality(S)

\* The ranks the specification gives: INFO=0, PASS=1, WARN=2, FAIL=3.
StatedRank(st) ==
    CASE st = "INFO" -> 0 [] st = "PASS" -> 1 [] st = "WARN" -> 2 [] st = "FAIL" -> 3

DeltaSequences(d) ==
    <<d.newFindings, d.resolvedFindings, d.regressionFindings, d.improvedFindings>>

\* C3: for lists with unique ids, ComputeDelta returns exactly: newFindings =
\* ids in current and not in previous; resolvedFindings = ids in previous and
\* not in current; regressionFindings = ids in both whose status differs and
\* whose rank rose; improvedFindings = ids in both whose status differs
\* otherwise; ids in both with equal status are in none of the four.
C3_DeltaClassification ==
    (dDone /\ dPrevious # << >> /\ UniqueIds(dCurrent)
        /\ UniqueIds(dPrevious[1].status.findings)) =>
    LET cur == dCurrent
        prev == dPrevious[1].status.findings
        both == IdsOf(cur) \cap IdsOf(prev)
        changed == {id \in both : StatusOf(cur, id) # StatusOf(prev, id)}
        worse == {id \in changed :
                    StatedRank(StatusOf(cur, id)) > StatedRank(StatusOf(prev, id))}
    IN /\ dOut # << >>
       /\ ListsExactly(dOut[1].newFindings, IdsOf(cur) \ IdsOf(prev))
       /\ ListsExactly(dOut[1].resolvedFindings, IdsOf(prev) \ IdsOf(cur))
       /\ ListsExactly(dOut[1].regressionFindings, worse)
       /\ ListsExactly(dOut[1].improvedFindings, changed \ worse)
       /\ \A id \in both \ changed :
            \A k \in 1..4 : id \notin Range(DeltaSequences(dOut[1])[k])

\* C3 witness: unique ids, a regression (INFO before, PASS now) together with
\* a new finding.
C3_Witness ==
    /\ dDone /\ dPrevious # << >> /\ dOut # << >>
    /\ UniqueIds(dCurrent) /\ UniqueIds(dPrevious[1].status.findings)
    /\ dOut[1].regressionFindings = <<"a">>
    /\ dOut[1].newFindings = <<"B">>
    /\ StatusOf(dCurrent, "a") = "PASS"
    /\ StatusOf(dPrevious[1].status.findings, "a") = "INFO"

\* C4: for any inputs (repeated ids included) the four sequences of a delta
\* are pairwise disjoint, hold no id twice and are each in ascending
\* lexicographic order.
C4_DeltaDisjointSorted ==
    (dDone /\ dOut # << >>) =>
    LET seqs == DeltaSequences(dOut[1])
    IN /\ \A i, j \in 1..4 : i < j => Range(seqs[i]) \cap Range(seqs[j]) = {}
       /\ \A i \in 1..4 : \A k \in 1..(Len(seqs[i]) - 1) :
            LexLess(Bytes(seqs[i][k]), Bytes(seqs[i][k + 1]))

\* C4 witness: the current list repeats an id with two statuses and the delta
\* holds a sequence of two ids.
C4_Witness ==
    /\ dDone /\ dOut # << >>
    /\ ~UniqueIds(dCurrent)
    /\ \E i, j \in DOMAIN dCurrent :
         dCurrent[i].id = dCurrent[j].id /\ dCurrent[i].status # dCurrent[j].status
    /\ dOut[1].newFindings = <<"B", "a">>

\* C5 (as claimed): a finding is identified by (validator, id), so a current
\* finding whose (validator, id) pair is not in the previous snapshot is
\* reported in newFindings, also when another validator emitted that id before.
C5_IdentityByValidatorAndId ==
    (dDone /\ dPrevious # << >> /\ dOut # << >>) =>
    \A i \in DOMAIN dCurrent :
        (~\E g \in Range(dPrevious[1].status.findings) :
              g.id = dCurrent[i].id /\ g.validator = dCurrent[i].validator)
        => dCurrent[i].id \in Range(dOut[1].newFindings)

\* C6: scoreDelta is current minus previous exactly when both scores are
\* present, and absent when either is absent.
C6_ScoreDelta ==
    (dDone /\ dPrevious # << >>) =>
    LET prevScore == dPrevious[1].status.summary.score
    IN /\ dOut # << >>
       /\ (dScore # << >> /\ prevScore # << >>) =>
            dOut[1].scoreDelta = <<dScore[1] - prevScore[1]>>
       /\ (dScore = << >> \/ prevScore = << >>) => dOut[1].scoreDelta = << >>

\* C6 witness: both scores present and the delta negative.
C6_Witness ==
    /\ dDone /\ dPrevious # << >> /\ dOut # << >>
    /\ dScore = <<40>>
    /\ dPrevious[1].status.summary.score = <<70>>
    /\ dOut[1].scoreDelta = <<-30>>

\* Findings of a list that share an id share a status.
AgreeById(fs) ==
    \A i, j \in DOMAIN fs : fs[i].id = fs[j].id => fs[i].status = fs[j].status

\* Every reordering of the two lists gives the delta that was returned, and
\* a current list with the findings of the previous one gives four empty
\* sequences.
OrderDoesNotMatter ==
    LET prev == dPrevious[1].status.findings
    IN /\ \A c \in Orderings(dCurrent), p \in Orderings(prev) :
            ComputeDelta(c, dScore,
                <<[dPrevious[1] EXCEPT !.status.findings = p]>>) = dOut
       /\ Range(dCurrent) = Range(prev) =>
            \A k \in 1..4 : DeltaSequences(dOut[1])[k] = << >>

\* C27 as stated: ComputeDelta depends on the contents of its lists, not on
\* their order, also when a list holds several findings with the same id and
\* different statuses.
C27_DeltaIgnoresOrder ==
    (dDone /\ dPrevious # << >>) => OrderDoesNotMatter

\* C27: for lists in which findings with the same id have the same status,
\* ComputeDelta depends on the contents of its lists, not on their order,
\* and a current list with the findings of the previous snapshot gives four
\* empty sequences.
C27_DeltaIgnoresOrderOfAgreeingLists ==
    (dDone /\ dPrevious # << >> /\ AgreeById(dCurrent)
        /\ AgreeById(dPrevious[1].status.findings)) => OrderDoesNotMatter

\* C27 witness: the current list holds the two findings of the previous
\* snapshot in the other order, and the delta is empty.
C27_Witness ==
    /\ dDone /\ dPrevious # << >> /\ dOut # << >>
    /\ Len(dCurrent) = 2
    /\ dCurrent[1].id # dCurrent[2].id
    /\ dPrevious[1].status.findings = Reverse(dCurrent)
    /\ \A k \in 1..4 : DeltaSequences(dOut[1])[k] = << >>

(***************************************************************************)
(* The snapshot store and the SnapshotManager.                             *)
(***************************************************************************)
Assessments == {"ca1", "ca2"}

\* historyLimit := 90 when spec.historyLimit is nil.
DefaultHistoryLimit == 90

\* The values of spec.historyLimit the model uses: nil (the default), 0
\* (history disabled), 1 and 2.
HistoryLimits == {<< >>, <<0>>, <<1>>, <<2>>}

\* A full Finding as a validator emits it.
Finding(id, validator, status) ==
    [id |-> id, validator |-> validator, category |-> "cat", status |-> status,
     title |-> "t", description |-> "long prose", resource |-> "", namespace |-> ""]

\* What a completed run leaves in status.findings and status.summary.score.
RunResults ==
    {[findings |-> <<Finding("a", "nodes", "PASS"), Finding("b", "security", "FAIL")>>,
      score |-> <<50>>],
     [findings |-> <<Finding("a", "nodes", "PASS"), Finding("b", "security", "WARN"),
                     Finding("c", "security", "FAIL")>>,
      score |-> <<50>>]}

\* A conversion that fills resource and namespace from each other.
compactFindingsSwapped(findings) ==
    [i \in 1..Len(findings) |->
        [id |-> findings[i].id, validator |-> findings[i].validator,
         category |-> findings[i].category, status |-> findings[i].status,
         title |-> findings[i].title, resource |-> findings[i].namespace,
         namespace |-> findings[i].resource]]

compactFindings(findings) ==
    [i \in 1..Len(findings) |->
        [id |-> findings[i].id, validator |-> findings[i].validator,
         category |-> findings[i].category, status |-> findings[i].status,
         title |-> findings[i].title, resource |-> findings[i].resource,
         namespace |-> findings[i].namespace]]

\* A list without the label selector.
LabelledOrNot(store, name) == store

\* client.List with the label selector assessment.openshift.io/name = name.
Labelled(store, name) == {s \in store : s.label = name}

\* items[i].Status.RunTime.After(items[j].Status.RunTime.Time)
RunTimeAfter(x, y) == x.status.runTime > y.status.runTime

\* items[i].Status.RunTime.Before(&items[j].Status.RunTime)
RunTimeBefore(x, y) == x.status.runTime < y.status.runTime

\* The orders sort.Slice may leave a set of snapshots in: every enumeration
\* in which no item is followed by one that is less.  (sort.Slice is not
\* stable: items that compare equal come in any order.)
Enumerations(S) == {s \in [1..Cardinality(S) -> S] : Range(s) = S}

\* A wrong comparator in GetHistory: oldest first.
HistoryOrderAscending(S) ==
    {s \in Enumerations(S) : \A i, j \in DOMAIN s : i < j => ~RunTimeBefore(s[j], s[i])}

\* GetHistory's order: runTime descending, most recent first.
HistoryOrder(S) ==
    {s \in Enumerations(S) : \A i, j \in DOMAIN s : i < j => ~RunTimeAfter(s[j], s[i])}

\* A wrong comparator in PruneHistory: newest first.
PruneOrderDescending(S) ==
    {s \in Enumerations(S) : \A i, j \in DOMAIN s : i < j => ~RunTimeAfter(s[j], s[i])}

\* PruneHistory's order: runTime ascending, oldest first.
PruneOrder(S) ==
    {s \in Enumerations(S) : \A i, j \in DOMAIN s : i < j => ~RunTimeBefore(s[j], s[i])}

\* items[:limit] when limit > 0 and there are more than limit items.
Truncate(items, limit) ==
    IF limit > 0 /\ Len(items) > limit THEN SubSeq(items, 1, limit) ELSE items

\* The results GetHistory may return when the list succeeds.
GetHistory(store, assessmentName, limit) ==
    {Truncate(items, limit) : items \in HistoryOrder(Labelled(store, assessmentName))}

\* The locals of a CreateSnapshot call that has not started.
IdleCall ==
    [assessment |-> [name |-> "", profile |-> "", historyLimit |-> << >>,
                     findings |-> << >>, score |-> << >>],
     compactFindings |-> << >>, historyErr |-> FALSE,
     delta |-> << >>, previousName |-> << >>,
     now |-> 0, snapshotName |-> << >>,
     items |-> << >>, toDelete |-> 0, i |-> 0, failedDeletes |-> {}]

NoReturn == [delta |-> << >>, snapshotCount |-> 0, err |-> "none"]

\* What the last returned call did in PruneHistory: the names of the
\* count - limit oldest snapshots it listed, those it tried to delete and
\* those whose delete failed, and the delta the call computed; kept until
\* the next run completes.
NoPrune == [marked |-> {}, attempted |-> {}, failedDeletes |-> {}, delta |-> << >>]

NoHistory == [limitChanged |-> FALSE, failed |-> FALSE, made |-> {}, prune |-> NoPrune]

ZeroStatus ==
    [findings |-> << >>, score |-> << >>, delta |-> << >>, snapshotCount |-> 0]

\* historyLimit as CreateSnapshot reads it.
EffectiveLimit(limitPtr) ==
    IF limitPtr # << >> THEN limitPtr[1] ELSE DefaultHistoryLimit

\* The reconciler creates a snapshot only if historyLimit > 0.
HistoryEnabled(limitPtr) == EffectiveLimit(limitPtr) > 0

\* The reconciler writes delta and snapshotCount back after CreateSnapshot
\* returned; an error is logged and leaves the run Completed, without delta.
RecordReturn(status, r) ==
    IF r.err = "" THEN [status EXCEPT !.delta = r.delta, !.snapshotCount = r.snapshotCount]
    ELSE [status EXCEPT !.delta = << >>]

\* What a call's return does to the history kept of an assessment: a call in
\* which every store operation succeeded adds its run time.
Remember(h, c, failedNow) ==
    LET prune == [marked |-> {c.items[k].name : k \in 1..c.toDelete},
                  attempted |-> {c.items[k].name : k \in 1..c.i},
                  failedDeletes |-> c.failedDeletes,
                  delta |-> c.delta]
    IN IF h.failed \/ failedNow \/ h.limitChanged
       THEN [h EXCEPT !.failed = h.failed \/ failedNow, !.made = {}, !.prune = prune]
       ELSE [h EXCEPT !.made = h.made \cup {c.now}, !.prune = prune]

\* CreateSnapshot returns (delta, snapshotCount, err) to its caller, lines
\* 429, 443 and 457; the status of the assessment is not touched.
Return(a, r, c, failedNow) ==
    /\ ret' = [ret EXCEPT ![a] = r]
    /\ hist' = [hist EXCEPT ![a] = Remember(hist[a], c, failedNow)]
    /\ pc' = [pc EXCEPT ![a] = "returned"]
    /\ call' = [call EXCEPT ![a] = IdleCall]
    /\ UNCHANGED caStatus

\* The reconciler, after CreateSnapshot returned, writes delta and
\* snapshotCount into the status of the assessment.
WriteBack(a) ==
    /\ pc[a] = "returned"
    /\ caStatus' = [caStatus EXCEPT ![a] = RecordReturn(caStatus[a], ret[a])]
    /\ pc' = [pc EXCEPT ![a] = "idle"]
    /\ UNCHANGED <<now, snapshots, historyLimit, call, ret, hist>>
    /\ UNCHANGED outsideHistory

\* A run of assessment a completes: the reconciler stores the findings and the
\* score and, if history is enabled, calls CreateSnapshot, which starts by
\* compacting the findings.
CompleteRun(a) ==
    /\ pc[a] = "idle"
    /\ \E r \in RunResults :
        LET st == [caStatus[a] EXCEPT !.findings = r.findings, !.score = r.score]
        IN IF HistoryEnabled(historyLimit[a])
           THEN /\ caStatus' = [caStatus EXCEPT ![a] = st]
                /\ pc' = [pc EXCEPT ![a] = "getHistory"]
                /\ call' = [call EXCEPT ![a] =
                      [IdleCall EXCEPT
                         !.assessment = [name |-> a, profile |-> "production",
                                         historyLimit |-> historyLimit[a],
                                         findings |-> r.findings, score |-> r.score],
                         !.compactFindings = compactFindings(r.findings)]]
                /\ UNCHANGED ret
           ELSE /\ caStatus' = [caStatus EXCEPT ![a] = [st EXCEPT !.delta = << >>]]
                /\ ret' = [ret EXCEPT ![a] = [NoReturn EXCEPT !.err = "skipped"]]
                /\ UNCHANGED <<pc, call>>
    /\ hist' = [hist EXCEPT ![a].prune = NoPrune]
    /\ UNCHANGED <<now, snapshots, historyLimit>>
    /\ UNCHANGED outsideHistory

\* CreateSnapshot, lines 395-407: the previous snapshot and the delta.
GetPrevious(a) ==
    /\ pc[a] = "getHistory"
    /\ \/ \E previousSnapshots \in GetHistory(snapshots, call[a].assessment.name, 1) :
            call' = [call EXCEPT ![a] =
                IF Len(previousSnapshots) > 0
                THEN [@ EXCEPT
                        !.previousName = previousSnapshots[1].name,
                        !.delta = ComputeDelta(call[a].compactFindings,
                                               call[a].assessment.score,
                                               <<previousSnapshots[1]>>)]
                ELSE @]
       \/ \* the list fails: logged, and the call goes on without a delta
          call' = [call EXCEPT ![a].historyErr = TRUE]
    /\ pc' = [pc EXCEPT ![a] = "create"]
    /\ UNCHANGED <<now, snapshots, historyLimit, caStatus, ret, hist>>
    /\ UNCHANGED outsideHistory

\* CreateSnapshot, lines 409-430: the snapshot is created, without its status.
CreateRecord(a) ==
    /\ pc[a] = "create"
    /\ LET snapshotName == <<call[a].assessment.name, now>>
           snapshot == AssessmentSnapshot(snapshotName, call[a].assessment.name,
                           call[a].assessment.name, call[a].assessment.profile,
                           ZeroSnapshotStatus)
       IN \/ /\ \A s \in snapshots : s.name # snapshotName
             /\ snapshots' = snapshots \cup {snapshot}
             /\ call' = [call EXCEPT ![a].now = now, ![a].snapshotName = snapshotName]
             /\ pc' = [pc EXCEPT ![a] = "statusUpdate"]
             /\ UNCHANGED <<caStatus, ret, hist>>
          \/ \* the create fails because the name is taken
             /\ \E s \in snapshots : s.name = snapshotName
             /\ Return(a, [delta |-> << >>, snapshotCount |-> 0,
                           err |-> "failed to create snapshot: already exists"],
                       call[a], TRUE)
             /\ UNCHANGED snapshots
          \/ \* the create fails because the store fails
             /\ Return(a, [delta |-> << >>, snapshotCount |-> 0,
                           err |-> "failed to create snapshot"],
                       call[a], TRUE)
             /\ UNCHANGED snapshots
    /\ UNCHANGED <<now, historyLimit>>
    /\ UNCHANGED outsideHistory

\* A status update that reaches every snapshot of the assessment.
StatusUpdateTargetByLabel(s, c) == s.label = c.assessment.name

\* The record Status().Update writes: the snapshot object just created.
StatusUpdateTarget(s, c) == s.name = c.snapshotName

\* CreateSnapshot, lines 432-444: the status is written in a second step.
UpdateStatus(a) ==
    /\ pc[a] = "statusUpdate"
    /\ \/ /\ snapshots' =
                {IF StatusUpdateTarget(s, call[a])
                 THEN [s EXCEPT !.status =
                         [runTime |-> call[a].now,
                          summary |-> [score |-> call[a].assessment.score],
                          findings |-> call[a].compactFindings,
                          delta |-> call[a].delta,
                          previousSnapshotName |-> call[a].previousName]]
                 ELSE s : s \in snapshots}
          /\ pc' = [pc EXCEPT ![a] = "pruneList"]
          /\ UNCHANGED <<caStatus, call, ret, hist>>
       \/ \* the status update fails
          /\ Return(a, [delta |-> << >>, snapshotCount |-> 0,
                        err |-> "failed to update snapshot status"],
                    call[a], TRUE)
          /\ UNCHANGED snapshots
    /\ UNCHANGED <<now, historyLimit>>
    /\ UNCHANGED outsideHistory

\* PruneHistory, lines 491-513, called from CreateSnapshot, lines 446-457.
PruneList(a) ==
    /\ pc[a] = "pruneList"
    /\ LET limit == EffectiveLimit(call[a].assessment.historyLimit)
           listed == Labelled(snapshots, call[a].assessment.name)
           count == Cardinality(listed)
       IN \/ \* the list fails: PruneHistory returns (0, err), which is logged
             Return(a, [delta |-> call[a].delta, snapshotCount |-> 0, err |-> ""],
                    call[a], TRUE)
          \/ /\ count <= limit
             /\ Return(a, [delta |-> call[a].delta, snapshotCount |-> count, err |-> ""],
                       call[a], FALSE)
          \/ /\ ~(count <= limit)
             /\ \E items \in PruneOrder(listed) :
                  call' = [call EXCEPT ![a].items = items,
                                       ![a].toDelete = count - limit,
                                       ![a].i = 0]
             /\ pc' = [pc EXCEPT ![a] = "pruneDelete"]
             /\ UNCHANGED <<caStatus, ret, hist>>
    /\ UNCHANGED <<now, snapshots, historyLimit>>
    /\ UNCHANGED outsideHistory

\* A loop that stops at the first delete that fails.
LoopEndsAtFailure(i, toDelete, deleteErr) == deleteErr \/ i + 1 = toDelete

\* PruneHistory, lines 514-519: a failed delete is logged and the loop
\* continues; it ends after pass toDelete - 1.
LoopEnds(i, toDelete, deleteErr) == i + 1 = toDelete

\* PruneHistory, lines 514-522: one pass of the delete loop; after the last
\* pass PruneHistory returns limit and CreateSnapshot returns.
PruneDelete(a) ==
    /\ pc[a] = "pruneDelete"
    /\ call[a].i < call[a].toDelete
    /\ \E deleteErr \in BOOLEAN :
        LET limit == EffectiveLimit(call[a].assessment.historyLimit)
            item == call[a].items[call[a].i + 1]
            last == LoopEnds(call[a].i, call[a].toDelete, deleteErr)
            r == [delta |-> call[a].delta, snapshotCount |-> limit, err |-> ""]
            c == [call[a] EXCEPT
                    !.i = @ + 1,
                    !.failedDeletes = IF deleteErr THEN @ \cup {item.name} ELSE @]
        IN /\ snapshots' = IF deleteErr THEN snapshots
                           ELSE {s \in snapshots : s.name # item.name}
           /\ IF last
              THEN Return(a, r, c, deleteErr)
              ELSE /\ call' = [call EXCEPT ![a] = c]
                   /\ hist' = [hist EXCEPT ![a] =
                         IF deleteErr THEN [@ EXCEPT !.failed = TRUE, !.made = {}] ELSE @]
                   /\ UNCHANGED <<caStatus, pc, ret>>
    /\ UNCHANGED <<now, historyLimit>>
    /\ UNCHANGED outsideHistory

\* The user edits spec.historyLimit of an assessment that exists, at any
\* time.  A CreateSnapshot call in flight works on the copy of the
\* assessment it was given and does not see the edit.
SetHistoryLimit(a) ==
    /\ pc[a] # "off"
    /\ \E v \in HistoryLimits \ {historyLimit[a]} :
         historyLimit' = [historyLimit EXCEPT ![a] = v]
    /\ hist' = [hist EXCEPT ![a] = [@ EXCEPT !.limitChanged = TRUE, !.made = {}]]
    /\ UNCHANGED <<now, snapshots, caStatus, pc, call, ret>>
    /\ UNCHANGED outsideHistory

\* A second passes.
Tick ==
    /\ now < MaxTime
    /\ now' = now + 1
    /\ UNCHANGED <<snapshots, historyLimit, caStatus, pc, call, ret, hist>>
    /\ UNCHANGED outsideHistory

\* One assessment exists, with no snapshot yet; its historyLimit is any value.
HistoryInit ==
    /\ now = 1
    /\ snapshots = {}
    /\ historyLimit \in [Assessments -> HistoryLimits]
    /\ historyLimit["ca2"] = << >>
    /\ caStatus = [a \in Assessments |-> ZeroStatus]
    /\ pc = [a \in Assessments |-> IF a = "ca1" THEN "idle" ELSE "off"]
    /\ call = [a \in Assessments |-> IdleCall]
    /\ ret = [a \in Assessments |-> NoReturn]
    /\ hist = [a \in Assessments |-> NoHistory]

\* The run of two findings.
EarlierRun == CHOOSE r \in RunResults : Len(r.findings) = 2

\* The snapshot an earlier run of assessment a left, one second ago.
EarlierSnapshot(a) ==
    AssessmentSnapshot(<<a, MaxTime - 1>>, a, a, "production",
        [ZeroSnapshotStatus EXCEPT
            !.runTime = MaxTime - 1,
            !.summary = [score |-> EarlierRun.score],
            !.findings = compactFindings(EarlierRun.findings)])

\* Two assessments exist, each keeping one snapshot and each with the
\* snapshot of an earlier run in the store; the clock is at its last second.
HistoryPairInit ==
    /\ now = MaxTime
    /\ snapshots = {EarlierSnapshot(a) : a \in Assessments}
    /\ historyLimit = [a \in Assessments |-> <<1>>]
    /\ caStatus = [a \in Assessments |->
                     [ZeroStatus EXCEPT !.findings = EarlierRun.findings,
                                        !.score = EarlierRun.score,
                                        !.snapshotCount = 1]]
    /\ pc = [a \in Assessments |-> "idle"]
    /\ call = [a \in Assessments |-> IdleCall]
    /\ ret = [a \in Assessments |-> NoReturn]
    /\ hist = [a \in Assessments |-> [NoHistory EXCEPT !.made = {MaxTime - 1}]]

HistoryIdle ==
    /\ now = 1
    /\ snapshots = {}
    /\ historyLimit = [a \in Assessments |-> << >>]
    /\ caStatus = [a \in Assessments |-> ZeroStatus]
    /\ pc = [a \in Assessments |-> "off"]
    /\ call = [a \in Assessments |-> IdleCall]
    /\ ret = [a \in Assessments |-> NoReturn]
    /\ hist = [a \in Assessments |-> NoHistory]

NextHistory ==
    \/ \E a \in Assessments : CompleteRun(a)
    \/ \E a \in Assessments : GetPrevious(a)
    \/ \E a \in Assessments : CreateRecord(a)
    \/ \E a \in Assessments : UpdateStatus(a)
    \/ \E a \in Assessments : PruneList(a)
    \/ \E a \in Assessments : PruneDelete(a)
    \/ \E a \in Assessments : WriteBack(a)
    \/ \E a \in Assessments : SetHistoryLimit(a)
    \/ Tick

\* The history operations of two assessments within one second, their
\* historyLimit staying as it is.
NextHistoryPair ==
    \/ \E a \in Assessments : CompleteRun(a)
    \/ \E a \in Assessments : GetPrevious(a)
    \/ \E a \in Assessments : CreateRecord(a)
    \/ \E a \in Assessments : UpdateStatus(a)
    \/ \E a \in Assessments : PruneList(a)
    \/ \E a \in Assessments : PruneDelete(a)
    \/ \E a \in Assessments : WriteBack(a)

(***************************************************************************)
(* compactFindings applied to bounded inputs.                              *)
(***************************************************************************)
\* Two ways the fields of a finding that play no part in the delta may be
\* filled: cluster-scoped with short texts, or namespaced with a remediation.
FindingShapes ==
    {[category |-> "Security", title |-> "t", description |-> "long prose",
      resource |-> "", namespace |-> "", impact |-> "", recommendation |-> "",
      suppressed |-> FALSE],
     [category |-> "Storage", title |-> "No default storage class",
      description |-> "d", resource |-> "pvc/data", namespace |-> "prod",
      impact |-> "high", recommendation |-> "set one", suppressed |-> TRUE]}

\* The full findings given to compactFindings.
FullFindings ==
    {[id |-> id, validator |-> v, status |-> st] @@ shape :
        id \in {"a", "b"}, v \in {"nodes", "security"},
        st \in {"PASS", "FAIL"}, shape \in FindingShapes}

CompactInit ==
    /\ cFindings \in SeqsUpTo(FullFindings, MaxCompact)
    /\ cOut = << >>

ApplyCompactFindings ==
    /\ cOut = << >>
    /\ cOut' = <<compactFindings(cFindings)>>
    /\ UNCHANGED cFindings
    /\ UNCHANGED outsideCompact

NextCompact == ApplyCompactFindings

\* The fields a compact finding keeps.
IdentityFields ==
    {"id", "validator", "category", "status", "title", "resource", "namespace"}

\* C21: compactFindings returns a list of the same length and order as its
\* input, whose i-th entry has the id, validator, category, status, title,
\* resource and namespace of the i-th input finding (and nothing else), for
\* every input list, the empty list included.
C21_CompactKeepsIdentityFields ==
    cOut # << >> =>
        /\ Len(cOut[1]) = Len(cFindings)
        /\ \A i \in 1..Len(cFindings) :
              /\ DOMAIN cOut[1][i] = IdentityFields
              /\ \A f \in IdentityFields : cOut[1][i][f] = cFindings[i][f]

\* Two findings that differ in every identity field but the validator were
\* compacted, in their order.
C21_Witness ==
    /\ cOut # << >>
    /\ Len(cFindings) = 2
    /\ cFindings[1].id = "b" /\ cFindings[2].id = "a"
    /\ cFindings[1].resource = "pvc/data" /\ cFindings[2].resource = ""
    /\ cFindings[1].status = "FAIL" /\ cFindings[2].status = "PASS"
    /\ cOut[1][1].id = "b" /\ cOut[1][1].namespace = "prod"
    /\ cOut[1][2].id = "a"

(***************************************************************************)
(* Profiles: the built-in profiles, the AssessmentProfile override and     *)
(* mergeProfile.                                                           *)
(***************************************************************************)
ThresholdFields ==
    {"minControlPlaneNodes", "minWorkerNodes", "maxPodsPerNode",
     "maxClusterAdminBindings", "requireNetworkPolicy", "requireResourceQuotas",
     "requireLimitRanges", "maxDaysWithoutUpdate", "allowPrivilegedContainers",
     "requireDefaultStorageClass"}

\* The compiled-in production profile (the table of built-in profiles;
\* maxPodsPerNode is not in the table, 250 stands for its value).
ProductionProfile ==
    [name |-> "production", description |-> "production built-in",
     thresholds |->
        [minControlPlaneNodes |-> 3, minWorkerNodes |-> 3, maxPodsPerNode |-> 250,
         maxClusterAdminBindings |-> 5, requireNetworkPolicy |-> TRUE,
         requireResourceQuotas |-> TRUE, requireLimitRanges |-> TRUE,
         maxDaysWithoutUpdate |-> 90, allowPrivilegedContainers |-> FALSE,
         requireDefaultStorageClass |-> TRUE],
     strictness |-> 7, enabledValidators |-> << >>, disabledChecks |-> << >>]

\* The compiled-in development profile.
DevelopmentProfile ==
    [name |-> "development", description |-> "development built-in",
     thresholds |->
        [minControlPlaneNodes |-> 1, minWorkerNodes |-> 1, maxPodsPerNode |-> 250,
         maxClusterAdminBindings |-> 20, requireNetworkPolicy |-> FALSE,
         requireResourceQuotas |-> FALSE, requireLimitRanges |-> FALSE,
         maxDaysWithoutUpdate |-> 180, allowPrivilegedContainers |-> TRUE,
         requireDefaultStorageClass |-> FALSE],
     strictness |-> 3, enabledValidators |-> << >>, disabledChecks |-> << >>]

\* GetProfile: the built-in of that name; any other name gives production.
GetProfile(name) ==
    IF name = "development" THEN DevelopmentProfile ELSE ProductionProfile

\* ThresholdOverrides with every pointer nil.
NoOverrides == [f \in ThresholdFields |-> << >>]

\* The zero value of AssessmentProfileStatus (the message is a sequence of
\* words, empty for "").
ZeroProfileStatus == [ready |-> FALSE, message |-> << >>, resolvedValidatorCount |-> 0]

\* An AssessmentProfile record.
AssessmentProfile(name, spec, status) == [name |-> name, spec |-> spec, status |-> status]

AssessmentProfileSpec(description, basedOn, thresholds, enabled, disabled, checks) ==
    [description |-> description, basedOn |-> basedOn, thresholds |-> thresholds,
     enabledValidators |-> enabled, disabledValidators |-> disabled,
     disabledChecks |-> checks]

\* "if t.X != nil { base.Thresholds.X = *t.X }"
Override(baseValue, ptr) == IF ptr # << >> THEN ptr[1] ELSE baseValue

\* A copy-and-paste slip: maxPodsPerNode is overridden from the pointer of
\* maxClusterAdminBindings.
mergeThresholdsMisassigned(base, t) ==
    [minControlPlaneNodes |-> Override(base.minControlPlaneNodes, t.minControlPlaneNodes),
     minWorkerNodes |-> Override(base.minWorkerNodes, t.minWorkerNodes),
     maxPodsPerNode |-> Override(base.maxPodsPerNode, t.maxClusterAdminBindings),
     maxClusterAdminBindings |->
        Override(base.maxClusterAdminBindings, t.maxClusterAdminBindings),
     requireNetworkPolicy |-> Override(base.requireNetworkPolicy, t.requireNetworkPolicy),
     requireResourceQuotas |-> Override(base.requireResourceQuotas, t.requireResourceQuotas),
     requireLimitRanges |-> Override(base.requireLimitRanges, t.requireLimitRanges),
     maxDaysWithoutUpdate |-> Override(base.maxDaysWithoutUpdate, t.maxDaysWithoutUpdate),
     allowPrivilegedContainers |->
        Override(base.allowPrivilegedContainers, t.allowPrivilegedContainers),
     requireDefaultStorageClass |->
        Override(base.requireDefaultStorageClass, t.requireDefaultStorageClass)]

\* mergeProfile, lines 78-109, for a non-nil thresholds block t.
mergeThresholds(base, t) ==
    [minControlPlaneNodes |-> Override(base.minControlPlaneNodes, t.minControlPlaneNodes),
     minWorkerNodes |-> Override(base.minWorkerNodes, t.minWorkerNodes),
     maxPodsPerNode |-> Override(base.maxPodsPerNode, t.maxPodsPerNode),
     maxClusterAdminBindings |->
        Override(base.maxClusterAdminBindings, t.maxClusterAdminBindings),
     requireNetworkPolicy |-> Override(base.requireNetworkPolicy, t.requireNetworkPolicy),
     requireResourceQuotas |-> Override(base.requireResourceQuotas, t.requireResourceQuotas),
     requireLimitRanges |-> Override(base.requireLimitRanges, t.requireLimitRanges),
     maxDaysWithoutUpdate |-> Override(base.maxDaysWithoutUpdate, t.maxDaysWithoutUpdate),
     allowPrivilegedContainers |->
        Override(base.allowPrivilegedContainers, t.allowPrivilegedContainers),
     requireDefaultStorageClass |->
        Override(base.requireDefaultStorageClass, t.requireDefaultStorageClass)]

mergeProfile(custom) ==
    LET baseName == IF custom.spec.basedOn = "" THEN "production" ELSE custom.spec.basedOn
        base == GetProfile(baseName)
    IN [name |-> custom.name,
        description |-> IF custom.spec.description # ""
                        THEN custom.spec.description ELSE base.description,
        thresholds |-> IF custom.spec.thresholds # << >>
                       THEN mergeThresholds(base.thresholds, custom.spec.thresholds[1])
                       ELSE base.thresholds,
        strictness |-> base.strictness,
        enabledValidators |-> IF Len(custom.spec.enabledValidators) > 0
                              THEN custom.spec.enabledValidators
                              ELSE base.enabledValidators,
        disabledChecks |-> IF Len(custom.spec.disabledChecks) > 0
                           THEN base.disabledChecks \o custom.spec.disabledChecks
                           ELSE base.disabledChecks]

(***************************************************************************)
(* mergeProfile applied to bounded inputs.                                 *)
(***************************************************************************)
\* The values an override may give each threshold: nil, or a pointer to a
\* value (0 included for one of the numbers, both booleans for the flags).
OverrideValues ==
    [minControlPlaneNodes |-> {<< >>, <<5>>},
     minWorkerNodes |-> {<< >>, <<10>>},
     maxPodsPerNode |-> {<< >>, <<100>>},
     maxClusterAdminBindings |-> {<< >>, <<0>>, <<2>>},
     requireNetworkPolicy |-> {<< >>, <<TRUE>>, <<FALSE>>},
     requireResourceQuotas |-> {<< >>, <<TRUE>>, <<FALSE>>},
     requireLimitRanges |-> {<< >>, <<TRUE>>, <<FALSE>>},
     maxDaysWithoutUpdate |-> {<< >>, <<30>>},
     allowPrivilegedContainers |-> {<< >>, <<TRUE>>, <<FALSE>>},
     requireDefaultStorageClass |-> {<< >>, <<TRUE>>, <<FALSE>>}]

ThresholdOverrides ==
    {[minControlPlaneNodes |-> cp, minWorkerNodes |-> wk, maxPodsPerNode |-> pods,
      maxClusterAdminBindings |-> adm, requireNetworkPolicy |-> np,
      requireResourceQuotas |-> rq, requireLimitRanges |-> lr,
      maxDaysWithoutUpdate |-> days, allowPrivilegedContainers |-> priv,
      requireDefaultStorageClass |-> sc] :
        cp \in OverrideValues.minControlPlaneNodes,
        wk \in OverrideValues.minWorkerNodes,
        pods \in OverrideValues.maxPodsPerNode,
        adm \in OverrideValues.maxClusterAdminBindings,
        np \in OverrideValues.requireNetworkPolicy,
        rq \in OverrideValues.requireResourceQuotas,
        lr \in OverrideValues.requireLimitRanges,
        days \in OverrideValues.maxDaysWithoutUpdate,
        priv \in OverrideValues.allowPrivilegedContainers,
        sc \in OverrideValues.requireDefaultStorageClass}

MergeBases == {"", "production", "development"}

MergeInit ==
    /\ \E b \in MergeBases :
         \E t \in {<< >>} \cup {<<x>> : x \in ThresholdOverrides} :
            mCustom = <<AssessmentProfile("custom",
                          AssessmentProfileSpec("", b, t, << >>, << >>, << >>),
                          ZeroProfileStatus)>>
    /\ mOut = << >>

MergeIdle ==
    /\ mCustom = << >>
    /\ mOut = << >>

ApplyMergeProfile ==
    /\ mCustom # << >>
    /\ mOut = << >>
    /\ mOut' = <<mergeProfile(mCustom[1])>>
    /\ UNCHANGED mCustom
    /\ UNCHANGED outsideMerge

NextMerge == ApplyMergeProfile

(***************************************************************************)
(* Properties of mergeProfile (checked under SpecMerge).                   *)
(***************************************************************************)
\* The base the override names: development for "development", production
\* for "" and "production".
StatedBase(basedOn) ==
    IF basedOn = "development" THEN DevelopmentProfile ELSE ProductionProfile

\* C10: for every override and each of the ten threshold fields, the merged
\* profile has the override's value when the override's pointer is non-nil
\* and the base profile's value otherwise (development for basedOn
\* "development", production for "" and "production"); a nil thresholds
\* block gives exactly the base's thresholds.
C10_ThresholdsOverrideOrInherit ==
    mOut # << >> =>
        LET custom == mCustom[1]
            base == StatedBase(custom.spec.basedOn).thresholds
            out == mOut[1].thresholds
        IN /\ DOMAIN out = ThresholdFields
           /\ custom.spec.thresholds = << >> => out = base
           /\ custom.spec.thresholds # << >> =>
                \A f \in ThresholdFields :
                    LET ptr == custom.spec.thresholds[1][f]
                    IN IF ptr # << >> THEN out[f] = ptr[1] ELSE out[f] = base[f]

\* A development-based override that sets some pointers (one of them to 0,
\* one to a value equal to neither base) and leaves others nil has been merged.
C10_Witness ==
    /\ mOut # << >>
    /\ mCustom[1].spec.basedOn = "development"
    /\ mCustom[1].spec.thresholds # << >>
    /\ mCustom[1].spec.thresholds[1].maxClusterAdminBindings = <<0>>
    /\ mCustom[1].spec.thresholds[1].maxPodsPerNode = << >>
    /\ mCustom[1].spec.thresholds[1].minWorkerNodes = <<10>>
    /\ mCustom[1].spec.thresholds[1].requireNetworkPolicy = <<TRUE>>
    /\ mCustom[1].spec.thresholds[1].requireLimitRanges = << >>
    /\ mOut[1].thresholds.maxClusterAdminBindings = 0
    /\ mOut[1].thresholds.minWorkerNodes = 10
    /\ mOut[1].thresholds.requireNetworkPolicy = TRUE
    /\ mOut[1].thresholds.requireLimitRanges = FALSE

(***************************************************************************)
(* The AssessmentProfile records, their reconciler and the resolver.       *)
(***************************************************************************)
\* Registry.Names(): the validators registered at start-up.
RegisteredNames == <<"nodes", "security", "storage">>

BuiltinNames == {"production", "development"}

\* The names an AssessmentProfile record may carry; one of them is also the
\* name of a built-in.
OverrideNames == {"custom", "development"}

\* The names Resolve is asked for ("other" has no record).
ResolveNames == {"", "production", "development", "custom", "other"}

SomeOverrides == [NoOverrides EXCEPT !.minWorkerNodes = <<10>>,
                                     !.requireNetworkPolicy = <<FALSE>>]

\* The specs a user may give the record of each name.
OverrideSpecs(name) ==
    IF name = "custom"
    THEN {AssessmentProfileSpec("", b, <<SomeOverrides>>, en, dis, checks) :
            b \in {"", "development", "staging"},
            en \in {<< >>, <<"security", "bogus">>, <<"nodes", "nodes">>},
            dis \in {<< >>, <<"storage">>, <<"storage", "storage">>},
            checks \in {<< >>, <<"x", "x">>}}
    ELSE {AssessmentProfileSpec("shadow", "production", <<SomeOverrides>>,
                                << >>, << >>, << >>)}

\* The first name of the list that is not registered ("for _, name := range").
FirstUnregistered(names) ==
    LET registeredSet == Range(RegisteredNames)
        bad == {i \in 1..Len(names) : names[i] \notin registeredSet}
    IN names[CHOOSE i \in bad : \A j \in bad : i <= j]

AllRegistered(names) == \A i \in 1..Len(names) : names[i] \in Range(RegisteredNames)

\* A validation that forgets the disabledValidators list.
validateProfileEnabledOnly(profile) ==
    LET basedOn == IF profile.spec.basedOn = "" THEN "production" ELSE profile.spec.basedOn
        disabledSet == Range(profile.spec.disabledValidators)
        validatorCount ==
            IF Len(profile.spec.enabledValidators) > 0
            THEN Len(profile.spec.enabledValidators)
            ELSE Cardinality({i \in 1..Len(RegisteredNames) :
                                 RegisteredNames[i] \notin disabledSet})
    IN IF basedOn # "production" /\ basedOn # "development"
       THEN [ready |-> FALSE, message |-> <<"invalid basedOn value", basedOn>>,
             resolvedValidatorCount |-> 0]
       ELSE IF ~AllRegistered(profile.spec.enabledValidators)
       THEN [ready |-> FALSE,
             message |-> <<"unknown validator in enabledValidators",
                           FirstUnregistered(profile.spec.enabledValidators)>>,
             resolvedValidatorCount |-> 0]
       ELSE [ready |-> TRUE, message |-> <<"Profile is valid">>,
             resolvedValidatorCount |-> validatorCount]

\* A validation that subtracts the length of disabledValidators.
validateProfileSubtractsLength(profile) ==
    LET basedOn == IF profile.spec.basedOn = "" THEN "production" ELSE profile.spec.basedOn
    IN IF \/ basedOn # "production" /\ basedOn # "development"
          \/ ~AllRegistered(profile.spec.enabledValidators)
          \/ ~AllRegistered(profile.spec.disabledValidators)
       THEN [ready |-> FALSE, message |-> <<"invalid">>, resolvedValidatorCount |-> 0]
       ELSE [ready |-> TRUE, message |-> <<"Profile is valid">>,
             resolvedValidatorCount |->
                IF Len(profile.spec.enabledValidators) > 0
                THEN Len(profile.spec.enabledValidators)
                ELSE Len(RegisteredNames) - Len(profile.spec.disabledValidators)]

\* A validation whose result depends on the status the record holds.
validateProfileFromStatus(profile) ==
    [ready |-> ~profile.status.ready, message |-> <<"Profile is valid">>,
     resolvedValidatorCount |-> Len(RegisteredNames)]

\* validateProfile: (ready, message, resolved validator count). The message
\* is the sequence of its format string and its argument.
validateProfile(profile) ==
    LET basedOn == IF profile.spec.basedOn = "" THEN "production" ELSE profile.spec.basedOn
        disabledSet == Range(profile.spec.disabledValidators)
        validatorCount ==
            IF Len(profile.spec.enabledValidators) > 0
            THEN Len(profile.spec.enabledValidators)
            ELSE IF Len(profile.spec.disabledValidators) > 0
            THEN Cardinality({i \in 1..Len(RegisteredNames) :
                                 RegisteredNames[i] \notin disabledSet})
            ELSE Len(RegisteredNames)
    IN IF basedOn # "production" /\ basedOn # "development"
       THEN [ready |-> FALSE, message |-> <<"invalid basedOn value", basedOn>>,
             resolvedValidatorCount |-> 0]
       ELSE IF ~AllRegistered(profile.spec.enabledValidators)
       THEN [ready |-> FALSE,
             message |-> <<"unknown validator in enabledValidators",
                           FirstUnregistered(profile.spec.enabledValidators)>>,
             resolvedValidatorCount |-> 0]
       ELSE IF ~AllRegistered(profile.spec.disabledValidators)
       THEN [ready |-> FALSE,
             message |-> <<"unknown validator in disabledValidators",
                           FirstUnregistered(profile.spec.disabledValidators)>>,
             resolvedValidatorCount |-> 0]
       ELSE [ready |-> TRUE, message |-> <<"Profile is valid">>,
             resolvedValidatorCount |-> validatorCount]

\* A resolver that looks the record up first and falls back on the
\* built-ins only when there is none.
ResolveStoreFirst(store, profileName, getErr) ==
    LET name == IF profileName = "" THEN "production" ELSE profileName
    IN IF ~getErr /\ name \in DOMAIN store /\ store[name] # << >>
       THEN [profile |-> <<mergeProfile(store[name][1])>>, err |-> FALSE]
       ELSE IF name \in BuiltinNames
       THEN [profile |-> <<GetProfile(name)>>, err |-> FALSE]
       ELSE [profile |-> << >>, err |-> TRUE]

\* Resolver.Resolve against the records of store; getErr says that
\* client.Get fails although the record may exist. The result is the
\* Profile (a pointer, nil for the zero Profile{}) and whether err != nil.
Resolve(store, profileName, getErr) ==
    LET name == IF profileName = "" THEN "production" ELSE profileName
    IN IF name \in BuiltinNames
       THEN [profile |-> <<GetProfile(name)>>, err |-> FALSE]
       ELSE IF getErr \/ name \notin DOMAIN store \/ store[name] = << >>
       THEN [profile |-> << >>, err |-> TRUE]
       ELSE [profile |-> <<mergeProfile(store[name][1])>>, err |-> FALSE]

\* The orchestrator's selection rules for a request's validators list and a
\* resolved Profile: the request's names if any, else the profile's
\* enabledValidators if any, else every registered validator; less the
\* names the Profile carries as disabledValidators.
SelectValidators(requestValidators, profile) ==
    LET considered ==
            IF Len(requestValidators) > 0
            THEN Range(requestValidators) \cap Range(RegisteredNames)
            ELSE IF Len(profile.enabledValidators) > 0
            THEN Range(profile.enabledValidators)
            ELSE Range(RegisteredNames)
        removed ==
            IF "disabledValidators" \in DOMAIN profile
            THEN Range(profile.disabledValidators) ELSE {}
    IN considered \ removed

\* No Reconcile call is between its two client calls.
NoReconcile == << >>

\* What a change of the record of name n to the pointer record means for the
\* Reconcile call in flight: a call that read the record of n holds a copy
\* whose resourceVersion is no longer the stored one.
AfterChange(n, record) ==
    IF /\ reconciling # NoReconcile
       /\ reconciling[1].name = n
       /\ record # profileStore[n]
    THEN <<[reconciling[1] EXCEPT !.stale = TRUE]>>
    ELSE reconciling

\* A user creates the record of name n, or replaces its spec; the status
\* sub-resource is left as it is.
ApplyOverride(n) ==
    /\ \E spec \in OverrideSpecs(n) :
         LET record ==
                 IF profileStore[n] = << >>
                 THEN <<AssessmentProfile(n, spec, ZeroProfileStatus)>>
                 ELSE <<AssessmentProfile(n, spec, profileStore[n][1].status)>>
         IN /\ profileStore' = [profileStore EXCEPT ![n] = record]
            /\ reconciling' = AfterChange(n, record)
    /\ resolved' = << >>
    /\ UNCHANGED outsideProfile

\* A user deletes the record of name n.
DeleteOverride(n) ==
    /\ profileStore[n] # << >>
    /\ profileStore' = [profileStore EXCEPT ![n] = << >>]
    /\ reconciling' = AfterChange(n, << >>)
    /\ resolved' = << >>
    /\ UNCHANGED outsideProfile

\* ready, message or resolvedValidatorCount of the stored status differs
\* from what validateProfile gives for the record.
StatusDiffers(profile) ==
    LET v == validateProfile(profile)
    IN \/ profile.status.ready # v.ready
       \/ profile.status.message # v.message
       \/ profile.status.resolvedValidatorCount # v.resolvedValidatorCount

\* AssessmentProfileReconciler.Reconcile for the record of name n, from its
\* start to its return or to the call of Status().Update: r.Get fails
\* (getErr) or finds no record, and the call returns; the status it read is
\* the one validateProfile gives, and the call returns; else the call goes
\* on to Status().Update with the copy it read. The controller runs one
\* Reconcile at a time.
ReconcileGet(n) ==
    /\ reconciling = NoReconcile
    /\ \E getErr \in BOOLEAN :
         IF getErr \/ profileStore[n] = << >>
         THEN reconciling' = NoReconcile
         ELSE IF StatusDiffers(profileStore[n][1])
         THEN reconciling' = <<[name |-> n, stale |-> FALSE]>>
         ELSE reconciling' = NoReconcile
    /\ UNCHANGED <<profileStore, resolved>>
    /\ UNCHANGED outsideProfile

\* The Status().Update of the Reconcile call in flight, and its return. The
\* update carries the copy read by r.Get with the three status fields set.
\* It fails (updateErr), or the API server refuses it because the record
\* was replaced or deleted since r.Get, and nothing is written; else the
\* copy is the stored record and its status is replaced.
ReconcileUpdate ==
    /\ reconciling # NoReconcile
    /\ \E updateErr \in BOOLEAN :
         LET n == reconciling[1].name
         IN IF updateErr \/ reconciling[1].stale \/ profileStore[n] = << >>
            THEN UNCHANGED <<profileStore, resolved>>
            ELSE LET profile == profileStore[n][1]
                 IN /\ profileStore' =
                          [profileStore EXCEPT ![n] =
                              <<AssessmentProfile(n, profile.spec,
                                                  validateProfile(profile))>>]
                    /\ resolved' = << >>
    /\ reconciling' = NoReconcile
    /\ UNCHANGED outsideProfile

\* The result of the call before, when it asked for the same name and no
\* record has changed since.
PreviousResult(profileName) ==
    IF resolved # << >> /\ resolved[1].name = profileName
    THEN <<[getErr |-> resolved[1].getErr, profile |-> resolved[1].profile,
            err |-> resolved[1].err]>>
    ELSE << >>

\* The assessment reconciler asks the resolver for the profile of a name;
\* resolved keeps the call's result (and that of the call before, for the
\* same name) until a record changes.
CallResolve ==
    /\ \E profileName \in ResolveNames, getErr \in BOOLEAN :
         resolved' = <<[name |-> profileName, getErr |-> getErr,
                        previous |-> PreviousResult(profileName)]
                       @@ Resolve(profileStore, profileName, getErr)>>
    /\ UNCHANGED <<profileStore, reconciling>>
    /\ UNCHANGED outsideProfile

ProfileInit ==
    /\ profileStore = [n \in OverrideNames |-> << >>]
    /\ resolved = << >>
    /\ reconciling = NoReconcile

NextProfile ==
    \/ \E n \in OverrideNames : ApplyOverride(n)
    \/ \E n \in OverrideNames : DeleteOverride(n)
    \/ \E n \in OverrideNames : ReconcileGet(n)
    \/ ReconcileUpdate
    \/ CallResolve

(***************************************************************************)
(* validateProfile applied to bounded inputs.                              *)
(***************************************************************************)
\* The validator names a record may list: registered ones and one that is not.
ListedNames == {"nodes", "security", "storage", "bogus"}

ValidateBases == {"", "production", "development", "staging", "Production"}

ValidateInit ==
    /\ \E b \in ValidateBases :
         \E en \in SeqsUpTo(ListedNames, MaxNames) :
            \E dis \in SeqsUpTo(ListedNames, MaxNames) :
               vProfile = <<AssessmentProfile("custom",
                              AssessmentProfileSpec("", b, << >>, en, dis, << >>),
                              ZeroProfileStatus)>>
    /\ vOut = << >>

ApplyValidateProfile ==
    /\ vProfile # << >>
    /\ vOut = << >>
    /\ vOut' = <<validateProfile(vProfile[1])>>
    /\ UNCHANGED vProfile
    /\ UNCHANGED outsideValidate

NextValidate == ApplyValidateProfile

(***************************************************************************)
(* Properties of the resolver and of the profile reconciler (checked under *)
(* SpecProfile).                                                           *)
(***************************************************************************)
\* C9: whenever the record of an override is invalid (validation yields
\* ready = false), Resolve of that override's name returns an error and no
\* Profile, whether or not the reconciler has validated the record yet.
C9_InvalidOverrideFailsResolve ==
    resolved # << >> =>
        LET r == resolved[1]
        IN (/\ r.name \in OverrideNames
            /\ profileStore[r.name] # << >>
            /\ ~validateProfile(profileStore[r.name][1]).ready)
           => (r.err /\ r.profile = << >>)

\* C11: Resolve of the empty name returns the production built-in; Resolve
\* of "production" or "development" returns that compiled-in profile without
\* reading the store, whether or not a record of the same name exists; a
\* name that is not a built-in and has no record returns an error.
C11_BuiltinsFirstThenNotFound ==
    resolved # << >> =>
        LET r == resolved[1]
        IN /\ r.name \in {"", "production"} =>
                (~r.err /\ r.profile = <<ProductionProfile>>)
           /\ r.name = "development" =>
                (~r.err /\ r.profile = <<DevelopmentProfile>>)
           /\ (/\ r.name \notin {"", "production", "development"}
               /\ (r.name \notin OverrideNames \/ profileStore[r.name] = << >>))
              => (r.err /\ r.profile = << >>)

\* Resolve of "development" while a record named development exists (and
\* with a store that cannot be read) gave the development built-in.
C11_Witness ==
    /\ resolved # << >>
    /\ resolved[1].name = "development"
    /\ resolved[1].getErr
    /\ profileStore["development"] # << >>
    /\ resolved[1].profile = <<DevelopmentProfile>>

\* The ids of a list, each once, in the order of their first occurrence.
RECURSIVE FirstOccurrences(_)
FirstOccurrences(s) ==
    IF s = << >> THEN << >>
    ELSE LET front == FirstOccurrences(SubSeq(s, 1, Len(s) - 1))
         IN IF s[Len(s)] \in Range(front) THEN front ELSE Append(front, s[Len(s)])

\* The record Resolve read for its last result, when it merged one.
ResolvedRecord == profileStore[resolved[1].name][1]

MergedAnOverride ==
    /\ resolved # << >>
    /\ ~resolved[1].err
    /\ resolved[1].name \in OverrideNames \ BuiltinNames
    /\ profileStore[resolved[1].name] # << >>

\* C12: the resolved profile's disabledChecks is the set union of the base's
\* and the override's disabledChecks: every id of either list exactly once,
\* in the order of first occurrence, also when the override repeats an id.
C12_DisabledChecksSetUnion ==
    MergedAnOverride =>
        LET custom == ResolvedRecord
            base == StatedBase(custom.spec.basedOn)
        IN resolved[1].profile[1].disabledChecks =
              FirstOccurrences(base.disabledChecks \o custom.spec.disabledChecks)

\* C16: for a request with an empty validators list that uses a ready
\* override with empty enabledValidators, no validator named in the
\* override's disabledValidators is among the validators selected through
\* the resolved Profile, and the number selected equals the override's
\* status.resolvedValidatorCount.
C16_DisabledValidatorsNotSelected ==
    (/\ MergedAnOverride
     /\ ResolvedRecord.status = validateProfile(ResolvedRecord)
     /\ ResolvedRecord.status.ready
     /\ ResolvedRecord.spec.enabledValidators = << >>)
    => LET selected == SelectValidators(<< >>, resolved[1].profile[1])
       IN /\ selected \cap Range(ResolvedRecord.spec.disabledValidators) = {}
          /\ Cardinality(selected) = ResolvedRecord.status.resolvedValidatorCount

(***************************************************************************)
(* Properties of validateProfile (checked under SpecValidate).             *)
(***************************************************************************)
NamesOf(list) == {list[i] : i \in 1..Len(list)}

Registered == {RegisteredNames[i] : i \in 1..Len(RegisteredNames)}

\* C14: validateProfile returns ready = true if and only if basedOn is
\* empty, "production" or "development" and every name of enabledValidators
\* and of disabledValidators is registered; whenever ready = false the
\* message is non-empty and resolvedValidatorCount is 0.
C14_ReadyIffValid ==
    vOut # << >> =>
        LET spec == vProfile[1].spec
            out == vOut[1]
        IN /\ out.ready <=>
                /\ spec.basedOn \in {"", "production", "development"}
                /\ NamesOf(spec.enabledValidators) \subseteq Registered
                /\ NamesOf(spec.disabledValidators) \subseteq Registered
           /\ ~out.ready => (out.message # << >> /\ out.resolvedValidatorCount = 0)

\* A record with a valid basedOn and valid enabledValidators was refused
\* for an unregistered name at the end of disabledValidators.
C14_Witness ==
    /\ vOut # << >>
    /\ vProfile[1].spec.basedOn = "development"
    /\ vProfile[1].spec.enabledValidators = <<"nodes">>
    /\ vProfile[1].spec.disabledValidators = <<"storage", "bogus">>
    /\ ~vOut[1].ready
    /\ vOut[1].message = <<"unknown validator in disabledValidators", "bogus">>

\* C15 as stated: for every valid override the count is the length of
\* enabledValidators when that list is non-empty, and otherwise the number
\* of registered validators minus the length of disabledValidators, also
\* for lists that repeat a name.
C15_CountByLength ==
    (vOut # << >> /\ vOut[1].ready) =>
        LET spec == vProfile[1].spec
        IN vOut[1].resolvedValidatorCount =
              IF Len(spec.enabledValidators) > 0
              THEN Len(spec.enabledValidators)
              ELSE Len(RegisteredNames) - Len(spec.disabledValidators)

\* C15 as amended: for every valid override the count is the length of
\* enabledValidators when that list is non-empty, and otherwise the number
\* of registered validators minus the number of distinct names in
\* disabledValidators.
C15_CountByDistinctDisabled ==
    (vOut # << >> /\ vOut[1].ready) =>
        LET spec == vProfile[1].spec
        IN vOut[1].resolvedValidatorCount =
              IF Len(spec.enabledValidators) > 0
              THEN Len(spec.enabledValidators)
              ELSE Cardinality(Registered) - Cardinality(NamesOf(spec.disabledValidators))

\* A valid record that names one validator twice in disabledValidators
\* has been validated: two of the three registered validators remain.
C15_Witness ==
    /\ vOut # << >>
    /\ vOut[1].ready
    /\ vProfile[1].spec.enabledValidators = << >>
    /\ vProfile[1].spec.disabledValidators = <<"storage", "storage">>
    /\ vOut[1].resolvedValidatorCount = 2

(***************************************************************************)
(* Properties of the history manager (checked under SpecHistory).          *)
(***************************************************************************)
SnapshotsOf(a) == Labelled(snapshots, a)

RunTimesOf(S) == {s.status.runTime : s \in S}

Min(x, y) == IF x <= y THEN x ELSE y

\* The n greatest members of a set of numbers.
Greatest(S, n) == {x \in S : Cardinality({y \in S : y > x}) < n}

\* Every store operation of every call for a succeeded so far, and its
\* historyLimit was never edited.
Clean(a) == ~hist[a].failed /\ ~hist[a].limitChanged

\* C1 (as claimed): with historyLimit = N >= 1, never edited, the number of
\* snapshots labelled with the assessment never exceeds N, in any state.
C1_CountNeverExceedsLimit ==
    \A a \in Assessments :
        (pc[a] # "off" /\ ~hist[a].limitChanged
            /\ EffectiveLimit(historyLimit[a]) >= 1)
        => Cardinality(SnapshotsOf(a)) <= EffectiveLimit(historyLimit[a])

\* C2: after k calls in which every store operation succeeded, with
\* historyLimit = N >= 1, exactly min(k, N) snapshots of the assessment exist
\* and they are the min(k, N) with the greatest run times; and PruneHistory
\* deletes the count - limit oldest of the snapshots it listed, never the
\* newest one.
C2_KeepsMostRecent ==
    \A a \in Assessments :
        /\ (pc[a] = "idle" /\ Clean(a) /\ EffectiveLimit(historyLimit[a]) >= 1) =>
            LET N == EffectiveLimit(historyLimit[a])
                k == Cardinality(hist[a].made)
            IN /\ Cardinality(SnapshotsOf(a)) = Min(k, N)
               /\ RunTimesOf(SnapshotsOf(a)) = Greatest(hist[a].made, N)
        /\ pc[a] = "pruneDelete" =>
            LET items == call[a].items
                toDelete == call[a].toDelete
            IN /\ toDelete = Len(items) - EffectiveLimit(call[a].assessment.historyLimit)
               /\ toDelete < Len(items)
               /\ \A i \in 1..toDelete :
                    /\ items[i].name # call[a].snapshotName
                    /\ \A j \in (toDelete + 1)..Len(items) :
                         items[i].status.runTime <= items[j].status.runTime
                    /\ items[i].status.runTime < items[Len(items)].status.runTime

\* C2 witness: three successful calls with historyLimit = 2 have left the two
\* most recent snapshots.
C2_Witness ==
    /\ pc["ca1"] = "idle" /\ Clean("ca1")
    /\ historyLimit["ca1"] = <<2>>
    /\ hist["ca1"].made = {1, 2, 3}
    /\ RunTimesOf(SnapshotsOf("ca1")) = {2, 3}

\* The previous snapshot is right: one with the greatest run time among the
\* existing, and the delta is computed against it.
PreviousIsMostRecent(a) ==
    \E s \in SnapshotsOf(a) :
        /\ \A t \in SnapshotsOf(a) : t.status.runTime <= s.status.runTime
        /\ call[a].previousName = s.name
        /\ call[a].delta = ComputeDelta(call[a].compactFindings,
                                        call[a].assessment.score, <<s>>)

\* C7 (as claimed): once CreateSnapshot has looked up the history, the delta
\* is computed against, and previousSnapshotName names, the existing snapshot
\* with the greatest run time; the delta is nil and the name empty if and
\* only if no snapshot of the assessment exists.
C7_PreviousIffExists ==
    \A a \in Assessments :
        pc[a] = "create" =>
            /\ (call[a].delta = << >> /\ call[a].previousName = << >>)
                    <=> SnapshotsOf(a) = {}
            /\ SnapshotsOf(a) # {} => PreviousIsMostRecent(a)

\* C7 (amended): ... if and only if no snapshot of the assessment exists or
\* listing the snapshots failed.
C7_PreviousIffExistsAndListed ==
    \A a \in Assessments :
        pc[a] = "create" =>
            /\ (call[a].delta = << >> /\ call[a].previousName = << >>)
                    <=> (SnapshotsOf(a) = {} \/ call[a].historyErr)
            /\ (SnapshotsOf(a) # {} /\ ~call[a].historyErr) => PreviousIsMostRecent(a)

\* C7 witness: two snapshots with different run times exist and the call
\* holds a delta against the newer one.
C7_Witness ==
    /\ pc["ca1"] = "create"
    /\ RunTimesOf(SnapshotsOf("ca1")) = {1, 2}
    /\ call["ca1"].previousName = <<"ca1", 2>>
    /\ call["ca1"].delta # << >>

\* C8: while the historyLimit of an assessment is 0, no step adds a snapshot
\* labelled with the assessment, not even one that is pruned later, and every
\* status written for the assessment has a nil delta, also when snapshots
\* made under an earlier non-zero historyLimit still exist.
C8_NoHistoryWhenDisabled ==
    [][\A a \in Assessments :
          historyLimit[a] = <<0>> =>
            /\ \A s \in SnapshotsOf(a)' : \E t \in SnapshotsOf(a) : t.name = s.name
            /\ caStatus'[a] # caStatus[a] => caStatus'[a].delta = << >>]_vars

(***************************************************************************)
(* Specifications.                                                         *)
(***************************************************************************)
\* C17: when the delete of one of the count - limit oldest snapshots fails,
\* PruneHistory still attempts the delete of each of the others and returns
\* no error (it returns limit), and CreateSnapshot returns the delta it
\* computed with a nil error.
C17_FailedDeleteDoesNotAbort ==
    \A a \in Assessments :
        LET p == hist[a].prune
        IN p.failedDeletes # {} =>
              /\ p.attempted = p.marked
              /\ ret[a].err = ""
              /\ ret[a].delta = p.delta
              /\ ret[a].snapshotCount >= 1

\* A call had two snapshots to prune; the delete of the first failed, the
\* second was deleted, and the call returned a delta.
C17_Witness ==
    \E a \in Assessments :
        LET p == hist[a].prune
        IN /\ Cardinality(p.marked) = 2
           /\ Cardinality(p.failedDeletes) = 1
           /\ p.attempted = p.marked
           /\ \E n \in p.marked \ p.failedDeletes : \A s \in snapshots : s.name # n
           /\ ret[a].delta # << >>
           /\ ret[a].err = ""

\* C18: the snapshot count CreateSnapshot returns (PruneHistory's count,
\* stored as status.snapshotCount) equals the number of snapshots labelled
\* with the assessment that exist in the store when the call returns,
\* whatever the outcome of the list and of the deletes.
C18_CountIsStoreCount ==
    \A a \in Assessments :
        (pc[a] = "idle" /\ ret[a].err = "") =>
            /\ ret[a].snapshotCount = Cardinality(Labelled(snapshots, a))
            /\ caStatus[a].snapshotCount = ret[a].snapshotCount

\* C19: a snapshot is named after the request and the second of its run
\* time; when CreateSnapshot runs while a snapshot of that name exists, a
\* snapshot is still created, under a distinct name with an increasing
\* suffix: the call does not fail and no snapshot is overwritten.
C19_CollisionGetsSuffix ==
    \A a \in Assessments :
        /\ ret[a].err # "failed to create snapshot: already exists"
        /\ \A s \in Labelled(snapshots, a) :
              /\ s.name[1] = a
              /\ s.status.runTime # 0 => s.name[2] = s.status.runTime

\* C20 as stated: from the first state in which a snapshot exists in the
\* store until pruning deletes it, its spec and status never change, and
\* only PruneHistory deletes remove snapshots.
C20_ImmutableFromCreate ==
    [][\A s \in snapshots :
          \/ s \in snapshots'
          \/ /\ \A t \in snapshots' : t.name # s.name
             /\ pc[s.label] = "pruneDelete"]_vars

\* C20 as amended: a snapshot is created with an empty status, which the
\* creating call writes once in the step that follows the create; its spec
\* never changes, its status never changes once written, and only
\* PruneHistory deletes remove snapshots.
C20_ImmutableOnceStatusWritten ==
    [][\A s \in snapshots :
          \/ s \in snapshots'
          \/ /\ \A t \in snapshots' : t.name # s.name
             /\ pc[s.label] = "pruneDelete"
          \/ /\ s.status = ZeroSnapshotStatus
             /\ pc[s.label] = "statusUpdate"
             /\ call[s.label].snapshotName = s.name
             /\ \E t \in snapshots' :
                   /\ t = [s EXCEPT !.status = t.status]
                   /\ \A u \in snapshots' : u.name = s.name => u = t]_vars

\* A snapshot whose status was written at second 1 is still in the store,
\* unchanged, after a later call wrote a second snapshot that names it as
\* its previous one, and a third call is writing its status.
C20_Witness ==
    \E s \in snapshots, t \in snapshots :
        /\ s.status.runTime = 1
        /\ s.status.findings # << >>
        /\ t.status.runTime > 1
        /\ t.status.previousSnapshotName = s.name
        /\ pc[s.label] = "statusUpdate"
        /\ call[s.label].snapshotName \notin {s.name, t.name}

\* The record of name n is there and its stored status is not what
\* validateProfile gives for it.
StatusIsStale(n) ==
    /\ profileStore[n] # << >>
    /\ StatusDiffers(profileStore[n][1])

\* C29: Reconcile writes the status of an override only when ready, message
\* or resolvedValidatorCount differs from the stored status; the record it
\* wrote is one a further Reconcile does not write again; and Reconcile for
\* a deleted override writes nothing. In steps: r.Get and validateProfile
\* write nothing and go on to Status().Update only for a record that is
\* there with a status that differs; Status().Update changes the store only
\* for a record that is still there and differs, leaves it with the status
\* validateProfile gives, and touches neither its spec nor another record.
C29_ReconcileQuiesces ==
    [][\A n \in OverrideNames :
          /\ ReconcileGet(n) =>
                /\ profileStore' = profileStore
                /\ reconciling' # NoReconcile =>
                      /\ reconciling'[1].name = n
                      /\ StatusIsStale(n)
          /\ (ReconcileUpdate /\ reconciling[1].name = n) =>
                /\ profileStore[n] = << >> => profileStore' = profileStore
                /\ ~StatusIsStale(n) => profileStore' = profileStore
                /\ profileStore' # profileStore =>
                      /\ StatusIsStale(n)
                      /\ ~StatusIsStale(n)'
                      /\ profileStore'[n][1].spec = profileStore[n][1].spec
                      /\ \A o \in OverrideNames \ {n} :
                            profileStore'[o] = profileStore[o]]_vars

\* The record custom has been reconciled: its status is the one
\* validateProfile gives for it, here ready with two validators, no
\* Reconcile is in flight and a further one has nothing to write.
C29_Witness ==
    /\ profileStore["custom"] # << >>
    /\ ~StatusIsStale("custom")
    /\ profileStore["custom"][1].status.ready
    /\ profileStore["custom"][1].status.resolvedValidatorCount = 2
    /\ profileStore["development"] = << >>
    /\ reconciling = NoReconcile

\* C30: the snapshots labelled with an assessment change only in a step of
\* that assessment's own CreateSnapshot or PruneHistory, a step that leaves
\* the calls of the other assessments alone; every snapshot carries the name
\* of its assessment as label, as spec.assessmentName and in its name; and
\* what a call read (its previous snapshot, the items it listed for
\* pruning) is labelled with its assessment.
C30_OperationsKeepToTheirLabel ==
    [][\A b \in Assessments :
          /\ Labelled(snapshots', b) # Labelled(snapshots, b) =>
                /\ pc[b] \in {"create", "statusUpdate", "pruneDelete"}
                /\ \A a \in Assessments \ {b} :
                      /\ pc'[a] = pc[a]
                      /\ call'[a] = call[a]
                      /\ Labelled(snapshots', a) = Labelled(snapshots, a)
          /\ \A s \in Labelled(snapshots', b) :
                s.spec.assessmentName = b /\ s.name[1] = b
          /\ call'[b].previousName # << >> => call'[b].previousName[1] = b
          /\ \A k \in 1..Len(call'[b].items) : call'[b].items[k].label = b]_vars

\* A call for ca1 has pruned a snapshot of ca1 while a snapshot of ca2 that
\* is at least as old is still in the store, with its status.
C30_Witness ==
    /\ pc["ca1"] = "idle"
    /\ \E name \in hist["ca1"].prune.attempted \ hist["ca1"].prune.failedDeletes :
          /\ \A s \in snapshots : s.name # name
          /\ \E t \in Labelled(snapshots, "ca2") :
                /\ t.status.runTime # 0
                /\ t.status.runTime <= name[2]
                /\ t.status.findings # << >>

\* C26: a CreateSnapshot call that returned an error left the snapshots
\* labelled with its assessment as they were, so that no snapshot with an
\* unpopulated status (zero runTime, no findings) is in the store for
\* GetHistory or PruneHistory to list once the call is over.
C26_FailedCreateLeavesNoSnapshot ==
    \A a \in Assessments :
        (pc[a] = "idle" /\ ret[a].err \notin {"none", ""})
            => \A s \in Labelled(snapshots, a) : s.status # ZeroSnapshotStatus

(***************************************************************************)
(* PruneHistory called with any limit the schema admits.                   *)
(***************************************************************************)
\* The values of limit: spec.historyLimit is an int without a minimum.
PruneLimits == (0 - MaxPruneSnapshots)..MaxPruneSnapshots

\* A snapshot of assessment a whose run was at second t.
SnapshotAt(a, t) ==
    AssessmentSnapshot(<<a, t>>, a, a, "production",
        [ZeroSnapshotStatus EXCEPT !.runTime = t])

\* The locals of a PruneHistory call before its list.
NoPruneLocals == [count |-> 0, items |-> << >>, toDelete |-> 0, i |-> 0]

\* PruneHistory, lines 491-512: the list, the early returns, the sort.
PruneHistoryList(listErr) ==
    /\ pPc = "call"
    /\ LET listed == Labelled(pStore, "ca1")
           count == Cardinality(listed)
       IN IF listErr
          THEN /\ pRet' = [count |-> 0, err |-> "failed to list snapshots for pruning"]
               /\ pPc' = "returned"
               /\ UNCHANGED pLocals
          ELSE IF count <= pLimit
          THEN /\ pRet' = [count |-> count, err |-> ""]
               /\ pPc' = "returned"
               /\ pLocals' = [pLocals EXCEPT !.count = count]
          ELSE /\ \E items \in PruneOrder(listed) :
                    pLocals' = [count |-> count, items |-> items,
                                toDelete |-> count - pLimit, i |-> 0]
               /\ pPc' = "loop"
               /\ UNCHANGED pRet
    /\ UNCHANGED <<pStore, pLimit>>
    /\ UNCHANGED outsidePrune

\* PruneHistory, lines 514-520: one pass of the delete loop.  items[i] with
\* i >= len(items) is a run-time panic (index out of range).
PruneHistoryDelete(deleteErr) ==
    /\ pPc = "loop"
    /\ pLocals.i < pLocals.toDelete
    /\ IF pLocals.i >= Len(pLocals.items)
       THEN /\ pPc' = "panicked"
            /\ UNCHANGED <<pStore, pLocals>>
       ELSE /\ pStore' = IF deleteErr THEN pStore
                         ELSE {s \in pStore : s.name # pLocals.items[pLocals.i + 1].name}
            /\ pLocals' = [pLocals EXCEPT !.i = @ + 1]
            /\ UNCHANGED pPc
    /\ UNCHANGED <<pLimit, pRet>>
    /\ UNCHANGED outsidePrune

\* PruneHistory, line 522: return limit, nil.
PruneHistoryReturn ==
    /\ pPc = "loop"
    /\ ~(pLocals.i < pLocals.toDelete)
    /\ pRet' = [count |-> pLimit, err |-> ""]
    /\ pPc' = "returned"
    /\ UNCHANGED <<pStore, pLimit, pLocals>>
    /\ UNCHANGED outsidePrune

\* The store holds up to MaxPruneSnapshots snapshots of ca1, one per second,
\* and one of ca2.
PruneInit ==
    /\ \E n \in 0..MaxPruneSnapshots :
          pStore = {SnapshotAt("ca1", t) : t \in 1..n} \cup {SnapshotAt("ca2", 1)}
    /\ pLimit \in PruneLimits
    /\ pPc = "call"
    /\ pLocals = NoPruneLocals
    /\ pRet = [count |-> 0, err |-> "none"]

NextPrune ==
    \/ \E listErr \in BOOLEAN : PruneHistoryList(listErr)
    \/ \E deleteErr \in BOOLEAN : PruneHistoryDelete(deleteErr)
    \/ PruneHistoryReturn

\* C28: for every limit, negative ones included, PruneHistory attempts to
\* delete at most as many snapshots as it listed, never indexes past the
\* listed items, and returns a count between 0 and the number listed.
C28_PruneStaysWithinListed ==
    /\ pPc # "panicked"
    /\ pLocals.i <= Len(pLocals.items)
    /\ pPc = "loop" => pLocals.toDelete <= pLocals.count
    /\ (pPc = "returned" /\ pRet.err = "")
          => (0 <= pRet.count /\ pRet.count <= pLocals.count)

(***************************************************************************)
(* The ClusterAssessment reconciler: the decision of each reconciliation,  *)
(* the phases it writes, the schedule arithmetic and the summary of a run. *)
(***************************************************************************)
\* spec.schedule: empty (single-shot), a well-formed cron expression, and a
\* malformed one.
Schedules == {"", "*/2 * * * *", "every day"}

\* The period of the well-formed schedule, in ticks of the clock.
CronPeriod == 2

\* Parsing a cron expression: the period, or nil for a malformed expression.
ParseSchedule(schedule) ==
    IF schedule = "*/2 * * * *" THEN <<CronPeriod>> ELSE << >>

\* The first tick of the schedule strictly after t.
NextCron(period, t) == ((t \div period) + 1) * period

Max(x, y) == IF x >= y THEN x ELSE y

\* The findings a run may return: every status, and a suppressed PASS and
\* a suppressed FAIL.
RunFindings ==
    {[status |-> st, suppressed |-> FALSE] : st \in FindingStatuses}
        \cup {[status |-> st, suppressed |-> TRUE] : st \in {"PASS", "FAIL"}}

\* Summary counts are over all findings, suppressed and INFO included.
CountStatus(findings, st) ==
    Cardinality({i \in 1..Len(findings) : findings[i].status = st})

\* The score counts non-suppressed findings only.
CountScored(findings, st) ==
    Cardinality({i \in 1..Len(findings) :
                    findings[i].status = st /\ ~findings[i].suppressed})

\* score = round(100 * (pass + 0.5 * warn) / (pass + warn + fail)) over the
\* non-suppressed findings, omitted (nil) when that denominator is 0.
calculateScore(findings) ==
    LET pass == CountScored(findings, "PASS")
        warn == CountScored(findings, "WARN")
        fail == CountScored(findings, "FAIL")
        den  == pass + warn + fail
    IN  IF den = 0 THEN << >>
        ELSE <<(200 * pass + 100 * warn + den) \div (2 * den)>>

calculateSummary(findings) ==
    [totalChecks |-> Len(findings),
     passCount   |-> CountStatus(findings, "PASS"),
     warnCount   |-> CountStatus(findings, "WARN"),
     failCount   |-> CountStatus(findings, "FAIL"),
     infoCount   |-> CountStatus(findings, "INFO"),
     score       |-> calculateScore(findings)]

\* The status of a request that has just been created: every field has its
\* zero value, the phase is the empty string until it is written.
ZeroStatusOfRequest ==
    [phase |-> "", lastRunTime |-> << >>, nextRunTime |-> << >>,
     summary |-> calculateSummary(<< >>), findings |-> << >>, message |-> ""]

\* On-demand: no run yet and no schedule.
OnDemand(spec, status) ==
    status.lastRunTime = << >> /\ spec.schedule = ""

\* Scheduled: a schedule that is not suspended and whose next run is due.
Scheduled(spec, status, t) ==
    /\ spec.schedule # ""
    /\ ~spec.suspend
    /\ status.nextRunTime # << >>
    /\ t >= status.nextRunTime[1]

\* A decision in which the annotation plays no part.
shouldRunNowWithoutAnnotation(spec, status, trigger, t) ==
    OnDemand(spec, status) \/ Scheduled(spec, status, t)

\* Whether this reconciliation runs the assessment: by the manual re-run
\* signal, by the on-demand rule or by the schedule rule.
shouldRunNow(spec, status, trigger, t) ==
    trigger \/ OnDemand(spec, status) \/ Scheduled(spec, status, t)

\* status.nextRunTime of a request that is not run now: unset without a
\* schedule, kept when set, and otherwise computed from the schedule,
\* suspended or not.
scheduledNextRunTime(spec, status, t) ==
    IF spec.schedule = "" THEN << >>
    ELSE IF status.nextRunTime # << >> THEN status.nextRunTime
    ELSE <<NextCron(ParseSchedule(spec.schedule)[1],
                    IF status.lastRunTime = << >> THEN t
                    ELSE Max(status.lastRunTime[1], t))>>

\* No reconciliation of the request is in flight.
NoCopy == << >>

\* A change of the stored request, its spec or its annotations, makes the
\* copy a reconciliation in flight holds stale: the status write of that
\* reconciliation then conflicts.
AfterRequestChange(copy) ==
    IF copy = NoCopy THEN NoCopy ELSE <<[copy[1] EXCEPT !.stale = TRUE]>>

\* The reconciler picks up a request whose status has never been written
\* and names its phase: Pending.  Nothing else of the status is written.
ReconcileCreated ==
    /\ rPc = "idle"
    /\ rStatus.phase = ""
    /\ rStatus' = [rStatus EXCEPT !.phase = "Pending"]
    /\ rLast' = "created"
    /\ UNCHANGED <<rSpec, rTrigger, rNow, rPc, rCopy>>
    /\ UNCHANGED outsideReconcile

\* The first half of a reconciliation of a request that has a phase: the
\* request is read, the annotation is removed if it is there, the decision
\* is taken and the status is written before the orchestrator is invoked.
\* A schedule that does not parse and a profile that does not resolve end
\* in phase Failed without a run; whether Failed is written at once (early)
\* or after Running is not fixed, and both orders are modelled.
ReconcileDecide(resolveErr, early) ==
    /\ rPc = "idle"
    /\ rStatus.phase # ""
    /\ LET parseErr == rSpec.schedule # "" /\ ParseSchedule(rSpec.schedule) = << >>
           run      == shouldRunNow(rSpec, rStatus, rTrigger, rNow)
           next     == IF parseErr THEN << >>
                       ELSE scheduledNextRunTime(rSpec, rStatus, rNow)
           message  == IF parseErr THEN "invalid schedule"
                       ELSE IF resolveErr THEN "profile not found" ELSE ""
           copy     == [spec |-> rSpec, trigger |-> rTrigger, stale |-> FALSE,
                        next |-> next, message |-> message]
       IN IF ~parseErr /\ ~run
          THEN /\ rStatus' = [rStatus EXCEPT !.nextRunTime = next]
               /\ rLast' = "skip"
               /\ UNCHANGED <<rPc, rCopy>>
          ELSE IF message # "" /\ early
          THEN /\ rStatus' = [rStatus EXCEPT !.phase = "Failed",
                                             !.nextRunTime = next,
                                             !.message = message]
               /\ rLast' = "refused"
               /\ UNCHANGED <<rPc, rCopy>>
          ELSE /\ rStatus' = [rStatus EXCEPT !.phase = "Running",
                                             !.nextRunTime = next,
                                             !.message = ""]
               /\ rLast' = "run"
               /\ rPc' = IF message # "" THEN "refusing" ELSE "running"
               /\ rCopy' = <<copy>>
    /\ rTrigger' = FALSE
    /\ UNCHANGED <<rSpec, rNow>>
    /\ UNCHANGED outsideReconcile

\* The status write that ends a reconciliation in flight: it is applied
\* unless the stored request changed since it was read; a conflict is
\* returned to the host runtime, which reconciles again.
EndReconcile(status) ==
    /\ IF rCopy[1].stale
       THEN /\ rLast' = "conflict"
            /\ UNCHANGED rStatus
       ELSE /\ rStatus' = status
            /\ rLast' = IF rPc = "refusing" THEN "refused" ELSE "finished"
    /\ rPc' = "idle"
    /\ rCopy' = NoCopy
    /\ UNCHANGED <<rSpec, rTrigger, rNow>>

\* Phase Running was written and the run is refused: Failed, without
\* invoking the orchestrator.
ReconcileRefuse ==
    /\ rPc = "refusing"
    /\ EndReconcile([rStatus EXCEPT !.phase = "Failed",
                                    !.message = rCopy[1].message])
    /\ UNCHANGED outsideReconcile

\* The second half: the orchestrator returned its findings.
ReconcileCompleted(findings) ==
    /\ rPc = "running"
    /\ EndReconcile([rStatus EXCEPT
                      !.phase = "Completed",
                      !.findings = findings,
                      !.summary = calculateSummary(findings),
                      !.lastRunTime = <<rNow>>,
                      !.nextRunTime =
                          IF rCopy[1].spec.schedule = "" THEN << >>
                          ELSE <<NextCron(ParseSchedule(rCopy[1].spec.schedule)[1],
                                          rNow)>>,
                      !.message = ""])
    /\ UNCHANGED outsideReconcile

\* The second half: the orchestrator returned an error.  lastRunTime is not
\* advanced.
ReconcileFailed ==
    /\ rPc = "running"
    /\ EndReconcile([rStatus EXCEPT !.phase = "Failed",
                                    !.message = "assessment failed"])
    /\ UNCHANGED outsideReconcile

\* The user edits the spec of the request, at any time.
EditRequest(schedule, suspend) ==
    /\ [schedule |-> schedule, suspend |-> suspend] # rSpec
    /\ rSpec' = [schedule |-> schedule, suspend |-> suspend]
    /\ rCopy' = AfterRequestChange(rCopy)
    /\ rLast' = "other"
    /\ UNCHANGED <<rTrigger, rStatus, rNow, rPc>>
    /\ UNCHANGED outsideReconcile

\* The user sets or removes the re-run annotation, at any time.
Annotate(present) ==
    /\ rTrigger # present
    /\ rTrigger' = present
    /\ rCopy' = AfterRequestChange(rCopy)
    /\ rLast' = "other"
    /\ UNCHANGED <<rSpec, rStatus, rNow, rPc>>
    /\ UNCHANGED outsideReconcile

ReconcileTick ==
    /\ rNow < MaxReconcileTime
    /\ rNow' = rNow + 1
    /\ rLast' = "other"
    /\ UNCHANGED <<rSpec, rTrigger, rStatus, rPc, rCopy>>
    /\ UNCHANGED outsideReconcile

ReconcileInit ==
    /\ rSpec \in [schedule : Schedules, suspend : BOOLEAN]
    /\ rTrigger = FALSE
    /\ rStatus = ZeroStatusOfRequest
    /\ rNow = 0
    /\ rPc = "idle"
    /\ rLast = "other"
    /\ rCopy = NoCopy

NextReconcile ==
    \/ ReconcileCreated
    \/ \E resolveErr \in BOOLEAN, early \in BOOLEAN :
          ReconcileDecide(resolveErr, early)
    \/ ReconcileRefuse
    \/ \E findings \in SeqsUpTo(RunFindings, MaxRunFindings) :
          ReconcileCompleted(findings)
    \/ ReconcileFailed
    \/ \E schedule \in Schedules, suspend \in BOOLEAN :
          EditRequest(schedule, suspend)
    \/ \E present \in BOOLEAN : Annotate(present)
    \/ ReconcileTick

\* The states whose last write is the status write of a reconciliation's
\* decision or of its run; the write that names the phase of a new request
\* comes before any decision.
WrittenByReconciler == rLast \in {"skip", "run", "refused", "finished"}

CompactIdle ==
    /\ cFindings = << >>
    /\ cOut = << >>

ReconcileIdle ==
    /\ rSpec = [schedule |-> "", suspend |-> FALSE]
    /\ rTrigger = FALSE
    /\ rStatus = ZeroStatusOfRequest
    /\ rNow = 0
    /\ rPc = "idle"
    /\ rLast = "other"
    /\ rCopy = NoCopy

PruneIdle ==
    /\ pStore = {}
    /\ pLimit = 0
    /\ pPc = "returned"
    /\ pLocals = NoPruneLocals
    /\ pRet = [count |-> 0, err |-> "none"]

ValidateIdle ==
    /\ vProfile = << >>
    /\ vOut = << >>

ProfileIdle ==
    /\ profileStore = [n \in OverrideNames |-> << >>]
    /\ resolved = << >>
    /\ reconciling = NoReconcile

InitDelta == DeltaInit /\ HistoryIdle /\ MergeIdle /\ ProfileIdle /\ ValidateIdle /\ CompactIdle /\ ReconcileIdle /\ PruneIdle

SpecDelta == InitDelta /\ [][NextDelta]_vars

InitHistory == DeltaIdle /\ HistoryInit /\ MergeIdle /\ ProfileIdle /\ ValidateIdle /\ CompactIdle /\ ReconcileIdle /\ PruneIdle

SpecHistory == InitHistory /\ [][NextHistory]_vars

InitMerge == DeltaIdle /\ HistoryIdle /\ MergeInit /\ ProfileIdle /\ ValidateIdle /\ CompactIdle /\ ReconcileIdle /\ PruneIdle

SpecMerge == InitMerge /\ [][NextMerge]_vars

InitProfile == DeltaIdle /\ HistoryIdle /\ MergeIdle /\ ProfileInit /\ ValidateIdle /\ CompactIdle /\ ReconcileIdle /\ PruneIdle

SpecProfile == InitProfile /\ [][NextProfile]_vars

InitValidate == DeltaIdle /\ HistoryIdle /\ MergeIdle /\ ProfileIdle /\ ValidateInit /\ CompactIdle /\ ReconcileIdle /\ PruneIdle

SpecValidate == InitValidate /\ [][NextValidate]_vars

InitCompact == DeltaIdle /\ HistoryIdle /\ MergeIdle /\ ProfileIdle /\ ValidateIdle /\ CompactInit /\ ReconcileIdle /\ PruneIdle

SpecCompact == InitCompact /\ [][NextCompact]_vars

InitReconcile == DeltaIdle /\ HistoryIdle /\ MergeIdle /\ ProfileIdle /\ ValidateIdle /\ CompactIdle /\ ReconcileInit /\ PruneIdle

SpecReconcile == InitReconcile /\ [][NextReconcile]_vars

InitPrune == DeltaIdle /\ HistoryIdle /\ MergeIdle /\ ProfileIdle /\ ValidateIdle /\ CompactIdle /\ ReconcileIdle /\ PruneInit

SpecPrune == InitPrune /\ [][NextPrune]_vars

InitHistoryPair == DeltaIdle /\ HistoryPairInit /\ MergeIdle /\ ProfileIdle /\ ValidateIdle /\ CompactIdle /\ ReconcileIdle /\ PruneIdle

SpecHistoryPair == InitHistoryPair /\ [][NextHistoryPair]_vars

====
